---- MODULE Spec2Model ----
(***************************************************************************)
(* Battery thermal model: src/Battery/battery_thermal_model.py as a state  *)
(* machine.  calculate_net_energy_flows calls the network builder          *)
(* (calculate_battery_box_parameters), stages the arrays and runs the time *)
(* loop (jit_battery_energy_flow_model) on the network the builder         *)
(* returned.                                                               *)
(*                                                                         *)
(* Numbers.  The program computes in float64.  The model computes in       *)
(* fixed point: a real x is the integer x * Scale, every product and       *)
(* quotient is rounded to the nearest representable value (as a float      *)
(* operation is), and operations are applied in the order of the source.   *)
(* A temperature is therefore carried from one timestep to the next at     *)
(* 0.01 C, where the program carries a float64, and after a few timesteps  *)
(* the two differ by up to 0.03 C.  The inputs of a run (AmbientTemps,     *)
(* DwellSeries, EnergyUses) are chosen so that every comparison of the     *)
(* inner wall with the heater threshold (lines 753 and 784) has the same   *)
(* outcome on both: on every input table of the model (FreeSteps = 4,      *)
(* MaxSteps = 6) the program triggers, injects and conducts in the         *)
(* timesteps the model does.  Longer tables of freely chosen samples bring *)
(* the inner wall closer to the threshold than the fixed point resolves.   *)
(* Indices.  The source indexes its arrays 0..N-1, the model 1..N: row i   *)
(* of the model is index i-1 of the source.                                *)
(***************************************************************************)
EXTENDS Integers, Sequences, FiniteSets, TLC

\* ------------------------------------------------------------------------
\* Fixed-point arithmetic standing for float64
\* ------------------------------------------------------------------------
Scale == 100

Abs(x) == IF x < 0 THEN -x ELSE x

Sign(x) == IF x < 0 THEN -1 ELSE 1

\* a / b rounded to the nearest integer, symmetric around 0
RDiv(a, b) == Sign(a) * Sign(b) * ((Abs(a) + (Abs(b) \div 2)) \div Abs(b))

\* x * y and x / y on fixed-point values
Mul(x, y) == RDiv(x * y, Scale)

Quo(x, y) == RDiv(x * Scale, y)

\* ------------------------------------------------------------------------
\* Bounds of the model
\* ------------------------------------------------------------------------
\* The longest input table.  MaxHeaterTime + 3 samples hold a trigger in the
\* first timestep followed by heater_time_minutes + 2 timesteps above the
\* threshold, for every heater_time_minutes up to MaxHeaterTime.
MaxSteps == 6

\* The longest input table every sample of which is chosen freely
FreeSteps == 4

\* The largest heater_time_minutes, in minutes
MaxHeaterTime == 3

\* ------------------------------------------------------------------------
\* Heat-flow primitives
\* ------------------------------------------------------------------------
stefan_boltzmann_constant == 567

kelvin_offset == 27315

joules_per_kwh == 3600000

calculate_heat_energy_flow(internal_temperature, external_temperature, thermal_resistance, duration_seconds) ==
    LET delta_temperature == internal_temperature - external_temperature
        power_watts == Quo(delta_temperature, thermal_resistance)
    IN  Mul(power_watts, duration_seconds)

\* stefan_boltzmann_constant * (tk_in^4 - tk_out^4) in W/m^2.  The fourth
\* powers exceed the 32-bit integer range of TLC, so the difference is
\* evaluated as sigma * (a^2 + b^2) * (a + b) * (a - b), sigma being held in
\* units of 1e-10 and the squares in whole K^2.
RadiativeFlux(tk_in, tk_out) ==
    LET squares == RDiv(tk_in * tk_in, Scale * Scale)
                   + RDiv(tk_out * tk_out, Scale * Scale)
        k1 == RDiv(squares * stefan_boltzmann_constant, 100000)
        k2 == RDiv(k1 * (tk_in + tk_out), 100000)
    IN  Mul(k2, tk_in - tk_out)

calculate_inner_radiative_heat_flow(surface_area_inner, surface_area_outer, emissivity_inner, emissivity_outer, temperature_inner_c, temperature_outer_c, duration_seconds) ==
    LET temperature_inner_k == temperature_inner_c + kelvin_offset
        temperature_outer_k == temperature_outer_c + kelvin_offset
        effective_emissivity ==
            Quo(Scale, Quo(Scale, emissivity_inner)
                       + Mul(Quo(surface_area_inner, surface_area_outer),
                             Quo(Scale, emissivity_outer) - Scale))
        power_watts ==
            Mul(Mul(effective_emissivity, surface_area_inner),
                RadiativeFlux(temperature_inner_k, temperature_outer_k))
    IN  Mul(power_watts, duration_seconds)

calculate_outer_radiative_heat_flow(surface_area, emissivity, temperature_inner_c, temperature_outer_c, duration_seconds) ==
    LET temperature_inner_k == temperature_inner_c + kelvin_offset
        temperature_outer_k == temperature_outer_c + kelvin_offset
        power_watts ==
            Mul(Mul(emissivity, surface_area),
                RadiativeFlux(temperature_inner_k, temperature_outer_k))
    IN  Mul(power_watts, duration_seconds)

calc_change_in_temperature_c(initial_temp, heat_energy, heat_capacity, mass) ==
    LET delta_temp == Quo(heat_energy, Mul(heat_capacity, mass))
    IN  initial_temp + delta_temp

\* ------------------------------------------------------------------------
\* The thermal network builder: calculate_battery_box_parameters
\* ------------------------------------------------------------------------
\* A Python call either returns a value or raises: a result is a record whose
\* field raised is "none" or the name of the exception.  Python indexes its
\* lists and tuples from 0, the model from 1: material_list[0][1] of the
\* source is material_list[1][2] here.

\* Python's None, where a list or a tuple is expected.  Lists and tuples are
\* sequences (functions on 1..n): None is a function on another domain, equal
\* to no list and no tuple, the empty ones included.  Python tests None and
\* the empty list or tuple alike as false.
None == [k \in {0} |-> 0]

\* bool(x) of a list, a tuple or None
Truthy(x) == x # None /\ x # << >>

\* The convective heat transfer coefficient the builder passes to
\* calculate_convective_resistance
heat_transfer_coefficient == 500

\* The resistances divide by a product of two inputs.  The division raises
\* when the product is 0.0, that is when a factor is 0; a product below the
\* resolution of the fixed point is not 0, so the quotient is taken over the
\* unrounded product (h * area_m2 is the product times Scale).

\* lines 9-23: 1 / (heat_transfer_coefficient * area_m2)
calculate_convective_resistance(h, area_m2) ==
    IF h * area_m2 = 0
    THEN [raised |-> "ZeroDivisionError"]
    ELSE [raised |-> "none",
          value |-> RDiv(Scale * Scale * Scale, h * area_m2)]

\* lines 26-43: thickness_m / (thermal_conductivity * area_m2)
calculate_conductive_resistance(thickness_m, thermal_conductivity, area_m2) ==
    IF thermal_conductivity * area_m2 = 0
    THEN [raised |-> "ZeroDivisionError"]
    ELSE [raised |-> "none",
          value |-> RDiv(thickness_m * Scale * Scale,
                         thermal_conductivity * area_m2)]

RECURSIVE CompositeLoop(_, _, _, _)
\* The for loop of calculate_composite_conductive_resistance from layer n on:
\* every layer is unpacked into five values, thickness first and conductivity
\* second; a layer of another length cannot be unpacked
CompositeLoop(materials, area_m2, n, total_resistance) ==
    IF n > Len(materials)
    THEN [raised |-> "none", value |-> total_resistance]
    ELSE IF materials[n] = None
    THEN [raised |-> "TypeError"]
    ELSE IF Len(materials[n]) # 5
    THEN [raised |-> "ValueError"]
    ELSE IF materials[n][2] * area_m2 = 0
    THEN [raised |-> "ZeroDivisionError"]
    ELSE CompositeLoop(materials, area_m2, n + 1,
                       total_resistance
                       + RDiv(materials[n][1] * Scale * Scale,
                              materials[n][2] * area_m2))

\* lines 46-67: None in the place of the list cannot be iterated
calculate_composite_conductive_resistance(materials, area_m2) ==
    IF materials = None
    THEN [raised |-> "TypeError"]
    ELSE CompositeLoop(materials, area_m2, 1, 0)

\* The faces of a cuboid: bottom, top and the four sides
FaceAreas(length, width, height) ==
    << Mul(length, width), Mul(length, width),
       Mul(length, height), Mul(length, height),
       Mul(width, height), Mul(width, height) >>

RECURSIVE SumFaces(_, _, _, _)
\* The total area of the first n faces whose flag in transfer_array is flag
SumFaces(areas, transfer_array, flag, n) ==
    IF n = 0 THEN 0
    ELSE SumFaces(areas, transfer_array, flag, n - 1)
         + (IF transfer_array[n] = flag THEN areas[n] ELSE 0)

\* The area resolver of Battery/battery_model_functions.py: a face flagged 0
\* exchanges heat by conduction, a face flagged 1 by convection; the air gap
\* convects over the inner-wall faces opposite the battery's convecting faces
calculate_heat_transfer_areas(a) ==
    LET battery == FaceAreas(a.battery_length, a.battery_width, a.battery_height)
        box == FaceAreas(a.box_length, a.box_width, a.box_height)
    IN  [ battery_conductive_area |->
              SumFaces(battery, a.battery_transfer_array, 0, 6),
          battery_convective_area |->
              SumFaces(battery, a.battery_transfer_array, 1, 6),
          air_convective_area |->
              SumFaces(box, a.battery_transfer_array, 1, 6),
          box_conductive_area |->
              SumFaces(box, a.box_transfer_array, 0, 6),
          box_convective_area |->
              SumFaces(box, a.box_transfer_array, 1, 6) ]

\* lines 305-308: a transfer array that tests false (None or empty) is
\* replaced by the default one
DefaultTransferArray == <<0, 1, 1, 1, 1, 1>>

\* lines 331-353: the wall's layers, mass and heat capacity.  The first entry
\* of material_list is read as the outer layer and the second as the inner
\* layer, each with its first value as conductivity and its second as
\* thickness.  Indexing None (the list or its first entry) is a TypeError;
\* indexing an empty list, a list of one or a layer of fewer than four values
\* is an IndexError.  The second entry is tested for truth (line 338): None
\* and an empty layer alike select the single-layer branch.
WallLayers(material_list, total_box_area) ==
    IF material_list = None
    THEN [raised |-> "TypeError"]
    ELSE IF Len(material_list) < 1
    THEN [raised |-> "IndexError"]
    ELSE IF material_list[1] = None
    THEN [raised |-> "TypeError"]
    ELSE IF Len(material_list[1]) < 4
    THEN [raised |-> "IndexError"]
    ELSE IF Len(material_list) < 2
    THEN [raised |-> "IndexError"]
    ELSE IF Truthy(material_list[2]) /\ Len(material_list[2]) < 4
    THEN [raised |-> "IndexError"]
    ELSE
    LET outer_material_thermal_conductivity == material_list[1][1]
        outer_material_heat_capacity == material_list[1][3]
        outer_material_density == material_list[1][4]
        two_layers == Truthy(material_list[2])
        outer_material_layer_thickness ==
            IF two_layers THEN material_list[1][2]
            ELSE Quo(material_list[1][2], 2 * Scale)
        inner_material_thermal_conductivity ==
            IF two_layers THEN material_list[2][1]
            ELSE outer_material_thermal_conductivity
        inner_material_layer_thickness ==
            IF two_layers THEN material_list[2][2]
            ELSE outer_material_layer_thickness
        inner_material_heat_capacity ==
            IF two_layers THEN material_list[2][3]
            ELSE outer_material_heat_capacity
        inner_material_density ==
            IF two_layers THEN material_list[2][4]
            ELSE outer_material_density
        half_area == Quo(total_box_area, 2 * Scale)
    IN  [ raised |-> "none",
          outer_material_thermal_conductivity |->
              outer_material_thermal_conductivity,
          outer_material_layer_thickness |-> outer_material_layer_thickness,
          inner_material_thermal_conductivity |->
              inner_material_thermal_conductivity,
          inner_material_layer_thickness |-> inner_material_layer_thickness,
          box_wall_mass_kg |->
              Mul(Mul(half_area, inner_material_density),
                  inner_material_layer_thickness)
              + Mul(Mul(half_area, outer_material_density),
                    outer_material_layer_thickness),
          box_heat_capacity |->
              Quo(inner_material_heat_capacity + outer_material_heat_capacity,
                  2 * Scale) ]

\* The first of a sequence of results that raised, or "none"
FirstRaised(results) ==
    IF \A n \in 1..Len(results) : results[n].raised = "none"
    THEN "none"
    ELSE results[CHOOSE n \in 1..Len(results) :
                     /\ results[n].raised # "none"
                     /\ \A m \in 1..(n - 1) : results[m].raised = "none"].raised

\* lines 275-388
calculate_battery_box_parameters(a) ==
    LET args == [a EXCEPT
                   !.battery_transfer_array =
                       IF Truthy(@) THEN @ ELSE DefaultTransferArray,
                   !.box_transfer_array =
                       IF Truthy(@) THEN @ ELSE DefaultTransferArray]
        areas == calculate_heat_transfer_areas(args)
        total_box_area == areas.box_conductive_area + areas.box_convective_area
        total_battery_area ==
            areas.battery_conductive_area + areas.battery_convective_area
        wall == WallLayers(args.material_list, total_box_area)
    IN  IF wall.raised # "none" THEN [raised |-> wall.raised]
        ELSE
        LET battery_conductive_resistance ==
                calculate_conductive_resistance(
                    wall.inner_material_layer_thickness,
                    wall.inner_material_thermal_conductivity,
                    areas.battery_conductive_area)
            battery_convective_resistance ==
                calculate_convective_resistance(
                    heat_transfer_coefficient, areas.battery_convective_area)
            box_inner_convective_resistance ==
                calculate_convective_resistance(
                    heat_transfer_coefficient, areas.air_convective_area)
            box_composite_conductive_resistance ==
                calculate_composite_conductive_resistance(
                    args.material_list, total_box_area)
            box_outer_conductive_resistance ==
                calculate_conductive_resistance(
                    wall.outer_material_layer_thickness,
                    wall.outer_material_thermal_conductivity,
                    areas.box_conductive_area)
            box_outer_convective_resistance ==
                calculate_convective_resistance(
                    heat_transfer_coefficient, areas.box_convective_area)
            raised == FirstRaised(<< battery_conductive_resistance,
                                     battery_convective_resistance,
                                     box_inner_convective_resistance,
                                     box_composite_conductive_resistance,
                                     box_outer_conductive_resistance,
                                     box_outer_convective_resistance >>)
        IN  IF raised # "none" THEN [raised |-> raised]
            ELSE [ raised |-> "none",
                   box_wall_mass_kg |-> wall.box_wall_mass_kg,
                   box_heat_capacity |-> wall.box_heat_capacity,
                   battery_conductive_resistance |->
                       battery_conductive_resistance.value,
                   battery_convective_resistance |->
                       battery_convective_resistance.value,
                   box_inner_convective_resistance |->
                       box_inner_convective_resistance.value,
                   box_composite_conductive_resistance |->
                       box_composite_conductive_resistance.value,
                   box_outer_conductive_resistance |->
                       box_outer_conductive_resistance.value,
                   box_outer_convective_resistance |->
                       box_outer_convective_resistance.value,
                   total_box_area |-> total_box_area,
                   total_battery_area |-> total_battery_area ]

\* ------------------------------------------------------------------------
\* Inputs of a run
\* ------------------------------------------------------------------------
\* Ambient temperature samples (degrees C, fixed point): well below, just
\* below and just above the heater threshold
AmbientTemps == {-1000, 350, 505}

\* Energy_Use_kWh samples (kWh, fixed point)
EnergyUses == {0, 1}

\* heater_time_minutes is a float (line 408, default 5.0) that the loop
\* compares with its integer counter: the whole minutes up to MaxHeaterTime
\* and 1.5 minutes, a value between two of them (fixed point)
HeaterTimes == { m * Scale : m \in 0..MaxHeaterTime } \cup { 150 }

\* The parameters of calculate_net_energy_flows other than the geometry and
\* the materials (fixed point, except use_heater).
\* With the heater disabled its minimum-on time plays no part: one value.
HeaterSettings ==
    { hs \in BOOLEAN \X HeaterTimes : hs[1] \/ hs[2] = MaxHeaterTime * Scale }

Configs ==
    { [ bucket_period_seconds |-> 6000,
        battery_mass_kg |-> 3600,
        battery_heat_capacity |-> 100000,
        battery_losses_perc |-> 3,
        heater_threshold_temp_c |-> 500,
        use_heater |-> hs[1],
        heater_power_w |-> 30000,
        heater_battery_transfer |-> 80,
        heater_time_minutes |-> hs[2],
        battery_emissivity |-> 90,
        box_inner_emissivity |-> 90,
        box_outer_emissivity |-> 90,
        battery_throughput_losses |-> 3 ]
      : hs \in HeaterSettings }

\* The geometry and the materials of a run, which calculate_net_energy_flows
\* passes on to calculate_battery_box_parameters: a box of 1.0 x 1.0 x 0.5 m
\* around a battery of 0.5 x 0.5 x 0.2 m, both conducting through bottom and
\* top and convecting through the four sides, with a wall of two layers of
\* one material; or the same with material_list left at its default, None
NetworkArgs ==
    { [ battery_length |-> 50, battery_width |-> 50, battery_height |-> 20,
        box_length |-> 100, box_width |-> 100, box_height |-> 50,
        battery_transfer_array |-> <<0, 0, 1, 1, 1, 1>>,
        box_transfer_array |-> <<0, 0, 1, 1, 1, 1>>,
        material_list |-> ml ]
      : ml \in { << <<50, 50, 100000, 150, 90>>, <<50, 50, 100000, 150, 90>> >>,
                 None } }

\* The load profile of a run of n samples: the energy use alternates between
\* two values (which may be equal)
EnergyUseSeries(n) ==
    { [j \in 1..n |-> IF j % 2 = 1 THEN a ELSE b] : a, b \in EnergyUses }

\* Input tables of up to FreeSteps samples, every ambient sample chosen
\* freely
FreeSeries ==
    UNION { { [j \in 1..n |-> [Ambient_Temperature_C |-> amb[j],
                               Energy_Use_kWh |-> use[j]]]
              : amb \in [1..n -> AmbientTemps], use \in EnergyUseSeries(n) }
            : n \in 1..FreeSteps }

\* Input tables of up to MaxSteps samples that start at 4.8 C, just below
\* the heater threshold, and stay at one ambient temperature afterwards: the
\* first timestep of an enabled heater triggers it and lifts the inner wall
\* above the threshold
DwellSeries ==
    UNION { { [j \in 1..n |-> [Ambient_Temperature_C |->
                                   IF j = 1 THEN 480 ELSE amb,
                               Energy_Use_kWh |-> use[j]]]
              : amb \in AmbientTemps, use \in EnergyUseSeries(n) }
            : n \in 1..MaxSteps }

\* The input table: one sample per timestep
TmySeries == FreeSeries \cup DwellSeries

VARIABLES
    cfg,                \* the parameters of the run
    tmy_data_df,        \* the input table
    arrays,             \* the output arrays, as one row per timestep
    pc,                 \* "start" at the call, "loop" inside the for loop,
                        \* "done" after the return, "raised" after an
                        \* exception
    i,                  \* the row the loop processes next
    battery_temp_c,     \* loop state: the three temperatures
    box_inner_temp_c,
    box_outer_temp_c,
    heater_on,          \* loop state: the heater
    heater_counter,
    hist,               \* history: what each processed timestep did
    builder_args,       \* the arguments of calculate_battery_box_parameters
    builder_result      \* what calculate_battery_box_parameters returned or
                        \* raised

vars == <<cfg, tmy_data_df, arrays, pc, i, battery_temp_c, box_inner_temp_c,
          box_outer_temp_c, heater_on, heater_counter, hist, builder_args,
          builder_result>>

\* len(datetime_temp), the range of the for loop
N == Len(arrays)

\* heater_power_j of calculate_net_energy_flows
heater_power_j == Mul(cfg.heater_power_w, cfg.bucket_period_seconds)

\* Battery_Losses_Input_J as staged from Energy_Use_kWh
LossesInput(energy_use_kwh, battery_losses_perc) ==
    Mul(Mul(energy_use_kwh, joules_per_kwh * Scale), battery_losses_perc)

\* Variant of InitialRow: the temperature columns are staged at 0.0 like the
\* energy columns instead of at the first ambient sample
InitialRow_ZeroTemperatures(df, c, j) ==
    [ Datetime |-> j,
      Ambient_Temperature_C |-> df[j].Ambient_Temperature_C,
      Battery_Temp_C |-> 0,
      Box_Inner_Temp_C |-> 0,
      Box_Outer_Temp_C |-> 0,
      Battery_Heater_Input_J |-> 0,
      Battery_Losses_Input_J |->
          LossesInput(df[j].Energy_Use_kWh, c.battery_losses_perc),
      Battery_Net_Energy_J |->
          LossesInput(df[j].Energy_Use_kWh, c.battery_losses_perc),
      Battery_Cond_to_Box_Inner_Energy_J |-> 0,
      Battery_Conv_to_Box_Inner_Energy_J |-> 0,
      Battery_Radi_to_Box_Inner_Energy_J |-> 0,
      Heater_to_Battery_Energy_J |-> 0,
      Heater_to_Box_Inner_Energy_J |-> 0,
      Box_Inner_Net_Energy_J |-> 0,
      Box_Inner_Cond_to_Battery_Energy_J |-> 0,
      Box_Inner_Conv_to_Battery_Energy_J |-> 0,
      Box_Inner_Radi_to_Battery_Energy_J |-> 0,
      Box_Inner_to_Box_Outer_Energy_J |-> 0,
      Box_Outer_Net_Energy_J |-> 0,
      Box_Outer_to_Box_Inner_Energy_J |-> 0,
      Box_Outer_Cond_to_Environment_Energy_J |-> 0,
      Box_Outer_Conv_to_Environment_Energy_J |-> 0,
      Box_Outer_Radi_to_Environment_Energy_J |-> 0,
      Box_Outer_Cond_from_Environment_Energy_J |-> 0,
      Box_Outer_Conv_from_Environment_Energy_J |-> 0,
      Box_Outer_Radi_from_Environment_Energy_J |-> 0 ]

\* Row j of the arrays as calculate_net_energy_flows stages them
InitialRow(df, c, j) ==
    [ Datetime |-> j,
      Ambient_Temperature_C |-> df[j].Ambient_Temperature_C,
      Battery_Temp_C |-> df[1].Ambient_Temperature_C,
      Box_Inner_Temp_C |-> df[1].Ambient_Temperature_C,
      Box_Outer_Temp_C |-> df[1].Ambient_Temperature_C,
      Battery_Heater_Input_J |-> 0,
      Battery_Losses_Input_J |->
          LossesInput(df[j].Energy_Use_kWh, c.battery_losses_perc),
      Battery_Net_Energy_J |->
          LossesInput(df[j].Energy_Use_kWh, c.battery_losses_perc),
      Battery_Cond_to_Box_Inner_Energy_J |-> 0,
      Battery_Conv_to_Box_Inner_Energy_J |-> 0,
      Battery_Radi_to_Box_Inner_Energy_J |-> 0,
      Heater_to_Battery_Energy_J |-> 0,
      Heater_to_Box_Inner_Energy_J |-> 0,
      Box_Inner_Net_Energy_J |-> 0,
      Box_Inner_Cond_to_Battery_Energy_J |-> 0,
      Box_Inner_Conv_to_Battery_Energy_J |-> 0,
      Box_Inner_Radi_to_Battery_Energy_J |-> 0,
      Box_Inner_to_Box_Outer_Energy_J |-> 0,
      Box_Outer_Net_Energy_J |-> 0,
      Box_Outer_to_Box_Inner_Energy_J |-> 0,
      Box_Outer_Cond_to_Environment_Energy_J |-> 0,
      Box_Outer_Conv_to_Environment_Energy_J |-> 0,
      Box_Outer_Radi_to_Environment_Energy_J |-> 0,
      Box_Outer_Cond_from_Environment_Energy_J |-> 0,
      Box_Outer_Conv_from_Environment_Energy_J |-> 0,
      Box_Outer_Radi_from_Environment_Energy_J |-> 0 ]

\* calculate_net_energy_flows is called: nothing is built or staged yet
Init ==
    /\ cfg \in Configs
    /\ tmy_data_df \in TmySeries
    /\ builder_args \in NetworkArgs
    /\ builder_result = <<>>
    /\ arrays = <<>>
    /\ pc = "start"
    /\ i = 0
    /\ battery_temp_c = 0
    /\ box_inner_temp_c = 0
    /\ box_outer_temp_c = 0
    /\ heater_on = FALSE
    /\ heater_counter = 0
    /\ hist = <<>>

\* lines 447-552 and 729-735: calculate_net_energy_flows calls the network
\* builder first.  When the builder raises, the exception leaves
\* calculate_net_energy_flows: nothing is staged and no timestep runs.
\* Otherwise the arrays are staged, the loop is entered with the network the
\* builder returned, and its locals are initialised from index 0 of the
\* arrays.
Stage ==
    /\ pc = "start"
    /\ builder_result' = calculate_battery_box_parameters(builder_args)
    /\ IF builder_result'.raised # "none"
       THEN /\ pc' = "raised"
            /\ UNCHANGED <<arrays, i, battery_temp_c, box_inner_temp_c,
                           box_outer_temp_c>>
       ELSE /\ pc' = "loop"
            /\ arrays' = [j \in 1..Len(tmy_data_df) |->
                             InitialRow(tmy_data_df, cfg, j)]
            /\ i' = 1
            /\ battery_temp_c' = arrays'[1].Battery_Temp_C
            /\ box_inner_temp_c' = arrays'[1].Box_Inner_Temp_C
            /\ box_outer_temp_c' = arrays'[1].Box_Outer_Temp_C
    /\ heater_on' = FALSE
    /\ heater_counter' = 0
    /\ UNCHANGED <<cfg, tmy_data_df, hist, builder_args>>

\* ------------------------------------------------------------------------
\* One iteration of the loop of jit_battery_energy_flow_model
\* ------------------------------------------------------------------------
\* The loop runs with the parameters in cfg on the thermal network in
\* builder_result.
\* The loop body works on a record s: the loop state (the three temperatures,
\* heater_on, heater_counter), row (index i of every array) and obs (what the
\* iteration did, kept as history).

HeatCapacityOf(node) ==
    IF node = "battery" THEN cfg.battery_heat_capacity ELSE builder_result.box_heat_capacity

MassOf(node) ==
    IF node = "battery" THEN cfg.battery_mass_kg ELSE builder_result.box_wall_mass_kg

TempField(node) ==
    CASE node = "battery" -> "battery_temp_c"
      [] node = "box_inner" -> "box_inner_temp_c"
      [] node = "box_outer" -> "box_outer_temp_c"

\* node_temp_c = calc_change_in_temperature_c(node_temp_c, heat_energy, ...);
\* the call is logged in obs.updates with the flow it applies
UpdateTemperature(s, node, heat_energy, flow) ==
    LET old == s[TempField(node)]
        new == calc_change_in_temperature_c(old, heat_energy,
                                            HeatCapacityOf(node), MassOf(node))
    IN  [s EXCEPT ![TempField(node)] = new,
                  !.obs.updates = Append(@, [node |-> node,
                                             flow |-> flow,
                                             initial_temp |-> old,
                                             heat_energy |-> heat_energy,
                                             new_temp |-> new])]

\* Variant of HeaterBookkeeping: the comparison is off by one, the heater is
\* switched off one count early
HeaterBookkeeping_OffByOne(s) ==
    LET t == IF s.heater_on
             THEN IF (s.heater_counter + 1) * Scale < cfg.heater_time_minutes
                  THEN [s EXCEPT !.heater_counter = @ + 1]
                  ELSE [s EXCEPT !.heater_on = FALSE, !.heater_counter = 0]
             ELSE s
    IN  [t EXCEPT !.obs.heater_on_checked = t.heater_on,
                  !.obs.heater_counter_checked = t.heater_counter]

\* Variant of HeaterBookkeeping: at the end of the minimum-on time the
\* counter is reset but the heater is left ON
HeaterBookkeeping_NeverOff(s) ==
    LET t == IF s.heater_on
             THEN IF s.heater_counter * Scale < cfg.heater_time_minutes
                  THEN [s EXCEPT !.heater_counter = @ + 1]
                  ELSE [s EXCEPT !.heater_counter = 0]
             ELSE s
    IN  [t EXCEPT !.obs.heater_on_checked = t.heater_on,
                  !.obs.heater_counter_checked = t.heater_counter]

\* Variant of HeaterBookkeeping: the heater is switched off with its counter
\* left as it is, without the reset of line 745
HeaterBookkeeping_NoReset(s) ==
    LET t == IF s.heater_on
             THEN IF s.heater_counter * Scale < cfg.heater_time_minutes
                  THEN [s EXCEPT !.heater_counter = @ + 1]
                  ELSE [s EXCEPT !.heater_on = FALSE]
             ELSE s
    IN  [t EXCEPT !.obs.heater_on_checked = t.heater_on,
                  !.obs.heater_counter_checked = t.heater_counter]

\* lines 740-745: the minimum-on bookkeeping
HeaterBookkeeping(s) ==
    LET t == IF s.heater_on
             THEN IF s.heater_counter * Scale < cfg.heater_time_minutes
                  THEN [s EXCEPT !.heater_counter = @ + 1]
                  ELSE [s EXCEPT !.heater_on = FALSE, !.heater_counter = 0]
             ELSE s
    IN  [t EXCEPT !.obs.heater_on_checked = t.heater_on,
                  !.obs.heater_counter_checked = t.heater_counter]

\* Variant of HeaterTrigger: a heater that is already ON keeps its counter
HeaterTrigger_KeepsCounter(s) ==
    LET fires == s.box_inner_temp_c <= cfg.heater_threshold_temp_c
                 /\ cfg.use_heater
        t == IF fires /\ ~s.heater_on
             THEN [s EXCEPT !.heater_on = TRUE, !.heater_counter = 0]
             ELSE s
    IN  [t EXCEPT !.obs.triggered = fires,
                  !.obs.heater_on_triggered = t.heater_on,
                  !.obs.heater_counter_triggered = t.heater_counter]

\* Variant of HeaterTrigger: the trigger does not look at use_heater
HeaterTrigger_IgnoresEnableFlag(s) ==
    LET fires == s.box_inner_temp_c <= cfg.heater_threshold_temp_c
        t == IF fires
             THEN [s EXCEPT !.heater_on = TRUE, !.heater_counter = 0]
             ELSE s
    IN  [t EXCEPT !.obs.triggered = fires,
                  !.obs.heater_on_triggered = t.heater_on,
                  !.obs.heater_counter_triggered = t.heater_counter]

\* lines 753-755: the trigger check
HeaterTrigger(s) ==
    LET fires == s.box_inner_temp_c <= cfg.heater_threshold_temp_c
                 /\ cfg.use_heater
        t == IF fires
             THEN [s EXCEPT !.heater_on = TRUE, !.heater_counter = 0]
             ELSE s
    IN  [t EXCEPT !.obs.triggered = fires,
                  !.obs.heater_on_triggered = t.heater_on,
                  !.obs.heater_counter_triggered = t.heater_counter]

\* Variant of HeaterInjection: the heater's throughput loss heats the battery
\* but is not added to the recorded losses input
HeaterInjection_LossesNotRecorded(s) ==
    IF cfg.use_heater /\ s.heater_on
    THEN LET heater_battery_energy_j ==
                 Mul(heater_power_j, cfg.heater_battery_transfer)
             heater_wall_energy_j ==
                 Mul(heater_power_j, Scale - cfg.heater_battery_transfer)
             battery_losses_input_energy_j ==
                 s.row.Battery_Losses_Input_J
                 + Mul(heater_power_j, cfg.battery_throughput_losses)
             battery_total_heating_losses_energy_j ==
                 battery_losses_input_energy_j + heater_battery_energy_j
             r == [s EXCEPT
                     !.row.Battery_Heater_Input_J = @ + heater_power_j,
                     !.row.Battery_Net_Energy_J =
                         @ + battery_total_heating_losses_energy_j,
                     !.row.Box_Inner_Net_Energy_J = @ + heater_wall_energy_j,
                     !.row.Heater_to_Battery_Energy_J = @ + heater_battery_energy_j,
                     !.row.Heater_to_Box_Inner_Energy_J = @ + heater_wall_energy_j,
                     !.obs.injected = TRUE]
             b == UpdateTemperature(r, "battery",
                                    battery_total_heating_losses_energy_j,
                                    "heater")
             w == UpdateTemperature(b, "box_inner", heater_wall_energy_j,
                                    "heater")
         IN  [w EXCEPT !.heater_counter = @ + 1]
    ELSE s

\* Variant of HeaterInjection: the branch leaves the counter to the
\* bookkeeping, without the increment of line 778
HeaterInjection_NoIncrement(s) ==
    IF cfg.use_heater /\ s.heater_on
    THEN LET heater_battery_energy_j ==
                 Mul(heater_power_j, cfg.heater_battery_transfer)
             heater_wall_energy_j ==
                 Mul(heater_power_j, Scale - cfg.heater_battery_transfer)
             battery_losses_input_energy_j ==
                 s.row.Battery_Losses_Input_J
                 + Mul(heater_power_j, cfg.battery_throughput_losses)
             battery_total_heating_losses_energy_j ==
                 battery_losses_input_energy_j + heater_battery_energy_j
             r == [s EXCEPT
                     !.row.Battery_Heater_Input_J = @ + heater_power_j,
                     !.row.Battery_Losses_Input_J = battery_losses_input_energy_j,
                     !.row.Battery_Net_Energy_J =
                         @ + battery_total_heating_losses_energy_j,
                     !.row.Box_Inner_Net_Energy_J = @ + heater_wall_energy_j,
                     !.row.Heater_to_Battery_Energy_J = @ + heater_battery_energy_j,
                     !.row.Heater_to_Box_Inner_Energy_J = @ + heater_wall_energy_j,
                     !.obs.injected = TRUE]
             b == UpdateTemperature(r, "battery",
                                    battery_total_heating_losses_energy_j,
                                    "heater")
         IN  UpdateTemperature(b, "box_inner", heater_wall_energy_j, "heater")
    ELSE s

\* lines 757-778: the heater branch
HeaterInjection(s) ==
    IF cfg.use_heater /\ s.heater_on
    THEN LET heater_battery_energy_j ==
                 Mul(heater_power_j, cfg.heater_battery_transfer)
             heater_wall_energy_j ==
                 Mul(heater_power_j, Scale - cfg.heater_battery_transfer)
             battery_losses_input_energy_j ==
                 s.row.Battery_Losses_Input_J
                 + Mul(heater_power_j, cfg.battery_throughput_losses)
             battery_total_heating_losses_energy_j ==
                 battery_losses_input_energy_j + heater_battery_energy_j
             r == [s EXCEPT
                     !.row.Battery_Heater_Input_J = @ + heater_power_j,
                     !.row.Battery_Losses_Input_J = battery_losses_input_energy_j,
                     !.row.Battery_Net_Energy_J =
                         @ + battery_total_heating_losses_energy_j,
                     !.row.Box_Inner_Net_Energy_J = @ + heater_wall_energy_j,
                     !.row.Heater_to_Battery_Energy_J = @ + heater_battery_energy_j,
                     !.row.Heater_to_Box_Inner_Energy_J = @ + heater_wall_energy_j,
                     !.obs.injected = TRUE]
             b == UpdateTemperature(r, "battery",
                                    battery_total_heating_losses_energy_j,
                                    "heater")
             w == UpdateTemperature(b, "box_inner", heater_wall_energy_j,
                                    "heater")
         IN  [w EXCEPT !.heater_counter = @ + 1]
    ELSE s

\* Variant of BatteryConduction: conduction is skipped while the heater is ON
\* instead of while the inner wall is at or below the threshold
BatteryConduction_GatedByHeater(s) ==
    LET g == [s EXCEPT !.obs.gate_temp = s.box_inner_temp_c,
                       !.obs.battery_gate_temp = s.battery_temp_c]
    IN  IF ~g.heater_on
        THEN LET q == calculate_heat_energy_flow(
                          g.battery_temp_c, g.box_inner_temp_c,
                          builder_result.battery_conductive_resistance,
                          cfg.bucket_period_seconds)
                 r == [g EXCEPT
                         !.row.Battery_Cond_to_Box_Inner_Energy_J = @ + q,
                         !.row.Battery_Net_Energy_J = @ + (-q),
                         !.row.Box_Inner_Cond_to_Battery_Energy_J = @ + (-q),
                         !.row.Box_Inner_Net_Energy_J = @ + q,
                         !.obs.conducted = TRUE]
             IN  UpdateTemperature(UpdateTemperature(r, "battery", -q, "cond"),
                                   "box_inner", q, "cond")
        ELSE g

\* lines 784-801: battery -> inner wall conduction
BatteryConduction(s) ==
    LET g == [s EXCEPT !.obs.gate_temp = s.box_inner_temp_c,
                       !.obs.battery_gate_temp = s.battery_temp_c]
    IN  IF g.box_inner_temp_c > cfg.heater_threshold_temp_c
        THEN LET q == calculate_heat_energy_flow(
                          g.battery_temp_c, g.box_inner_temp_c,
                          builder_result.battery_conductive_resistance,
                          cfg.bucket_period_seconds)
                 r == [g EXCEPT
                         !.row.Battery_Cond_to_Box_Inner_Energy_J = @ + q,
                         !.row.Battery_Net_Energy_J = @ + (-q),
                         !.row.Box_Inner_Cond_to_Battery_Energy_J = @ + (-q),
                         !.row.Box_Inner_Net_Energy_J = @ + q,
                         !.obs.conducted = TRUE]
             IN  UpdateTemperature(UpdateTemperature(r, "battery", -q, "cond"),
                                   "box_inner", q, "cond")
        ELSE g

\* lines 803-820: battery -> inner wall convection
BatteryConvection(s) ==
    LET q == calculate_heat_energy_flow(
                 s.battery_temp_c, s.box_inner_temp_c,
                 builder_result.battery_convective_resistance, cfg.bucket_period_seconds)
        t == UpdateTemperature(UpdateTemperature(s, "battery", -q, "conv"),
                               "box_inner", q, "conv")
    IN  [t EXCEPT !.row.Battery_Conv_to_Box_Inner_Energy_J = @ + q,
                  !.row.Battery_Net_Energy_J = @ + (-q),
                  !.row.Box_Inner_Conv_to_Battery_Energy_J = @ + (-q),
                  !.row.Box_Inner_Net_Energy_J = @ + q]

\* Variant of BatteryRadiation: the flow into the inner wall is computed
\* again, from the battery temperature the first update has left
BatteryRadiation_FlowRecomputed(s) ==
    LET q == calculate_inner_radiative_heat_flow(
                 builder_result.total_battery_area, builder_result.total_box_area,
                 cfg.battery_emissivity, cfg.box_inner_emissivity,
                 s.battery_temp_c, s.box_inner_temp_c,
                 cfg.bucket_period_seconds)
        b == UpdateTemperature(s, "battery", -q, "radi")
        q_again == calculate_inner_radiative_heat_flow(
                       builder_result.total_battery_area, builder_result.total_box_area,
                       cfg.battery_emissivity, cfg.box_inner_emissivity,
                       b.battery_temp_c, b.box_inner_temp_c,
                       cfg.bucket_period_seconds)
        t == UpdateTemperature(b, "box_inner", q_again, "radi")
    IN  [t EXCEPT !.row.Battery_Radi_to_Box_Inner_Energy_J = @ + q,
                  !.row.Battery_Net_Energy_J = @ + (-q),
                  !.row.Box_Inner_Radi_to_Battery_Energy_J = @ + (-q),
                  !.row.Box_Inner_Net_Energy_J = @ + q]

\* lines 823-840: battery <-> inner wall radiative exchange
BatteryRadiation(s) ==
    LET q == calculate_inner_radiative_heat_flow(
                 builder_result.total_battery_area, builder_result.total_box_area,
                 cfg.battery_emissivity, cfg.box_inner_emissivity,
                 s.battery_temp_c, s.box_inner_temp_c,
                 cfg.bucket_period_seconds)
        t == UpdateTemperature(UpdateTemperature(s, "battery", -q, "radi"),
                               "box_inner", q, "radi")
    IN  [t EXCEPT !.row.Battery_Radi_to_Box_Inner_Energy_J = @ + q,
                  !.row.Battery_Net_Energy_J = @ + (-q),
                  !.row.Box_Inner_Radi_to_Battery_Energy_J = @ + (-q),
                  !.row.Box_Inner_Net_Energy_J = @ + q]

\* Variant of WallConduction: the flow to the outer wall is added to the inner
\* wall's net energy instead of subtracted
WallConduction_NetSignSlip(s) ==
    LET q == calculate_heat_energy_flow(
                 s.box_inner_temp_c, s.box_outer_temp_c,
                 builder_result.box_composite_conductive_resistance,
                 cfg.bucket_period_seconds)
        r == [s EXCEPT !.row.Box_Inner_to_Box_Outer_Energy_J = @ + q,
                       !.row.Box_Inner_Net_Energy_J = @ + q,
                       !.row.Box_Outer_to_Box_Inner_Energy_J = @ + (-q),
                       !.row.Box_Outer_Net_Energy_J = @ + q]
    IN  UpdateTemperature(UpdateTemperature(r, "box_inner", -q, "wall"),
                          "box_outer", q, "wall")

\* lines 843-861: inner wall -> outer wall conduction
WallConduction(s) ==
    LET q == calculate_heat_energy_flow(
                 s.box_inner_temp_c, s.box_outer_temp_c,
                 builder_result.box_composite_conductive_resistance,
                 cfg.bucket_period_seconds)
        r == [s EXCEPT !.row.Box_Inner_to_Box_Outer_Energy_J = @ + q,
                       !.row.Box_Inner_Net_Energy_J = @ + (-q),
                       !.row.Box_Outer_to_Box_Inner_Energy_J = @ + (-q),
                       !.row.Box_Outer_Net_Energy_J = @ + q]
    IN  UpdateTemperature(UpdateTemperature(r, "box_inner", -q, "wall"),
                          "box_outer", q, "wall")

\* Variant of EnvironmentLosses: the radiative flow from the environment is
\* recorded with the sign of the flow to the environment
EnvironmentLosses_FromSignSlip(s) ==
    LET ambient_temperature == s.row.Ambient_Temperature_C
        conv == calculate_heat_energy_flow(
                    s.box_outer_temp_c, ambient_temperature,
                    builder_result.box_outer_convective_resistance,
                    cfg.bucket_period_seconds)
        cond == calculate_heat_energy_flow(
                    s.box_outer_temp_c, ambient_temperature,
                    builder_result.box_outer_conductive_resistance,
                    cfg.bucket_period_seconds)
        radi == calculate_outer_radiative_heat_flow(
                    builder_result.total_box_area, cfg.box_outer_emissivity,
                    s.box_outer_temp_c, ambient_temperature,
                    cfg.bucket_period_seconds)
        total == conv + cond + radi
        t == UpdateTemperature(s, "box_outer", -total, "env")
    IN  [t EXCEPT
           !.row.Box_Outer_Conv_to_Environment_Energy_J = @ + conv,
           !.row.Box_Outer_Conv_from_Environment_Energy_J = @ + (-conv),
           !.row.Box_Outer_Cond_to_Environment_Energy_J = @ + cond,
           !.row.Box_Outer_Cond_from_Environment_Energy_J = @ + (-cond),
           !.row.Box_Outer_Radi_to_Environment_Energy_J = @ + radi,
           !.row.Box_Outer_Radi_from_Environment_Energy_J = @ + radi,
           !.row.Box_Outer_Net_Energy_J = @ + total]

\* lines 864-892: outer wall -> environment
EnvironmentLosses(s) ==
    LET ambient_temperature == s.row.Ambient_Temperature_C
        conv == calculate_heat_energy_flow(
                    s.box_outer_temp_c, ambient_temperature,
                    builder_result.box_outer_convective_resistance,
                    cfg.bucket_period_seconds)
        cond == calculate_heat_energy_flow(
                    s.box_outer_temp_c, ambient_temperature,
                    builder_result.box_outer_conductive_resistance,
                    cfg.bucket_period_seconds)
        radi == calculate_outer_radiative_heat_flow(
                    builder_result.total_box_area, cfg.box_outer_emissivity,
                    s.box_outer_temp_c, ambient_temperature,
                    cfg.bucket_period_seconds)
        total == conv + cond + radi
        t == UpdateTemperature(s, "box_outer", -total, "env")
    IN  [t EXCEPT
           !.row.Box_Outer_Conv_to_Environment_Energy_J = @ + conv,
           !.row.Box_Outer_Conv_from_Environment_Energy_J = @ + (-conv),
           !.row.Box_Outer_Cond_to_Environment_Energy_J = @ + cond,
           !.row.Box_Outer_Cond_from_Environment_Energy_J = @ + (-cond),
           !.row.Box_Outer_Radi_to_Environment_Energy_J = @ + radi,
           !.row.Box_Outer_Radi_from_Environment_Energy_J = @ + (-radi),
           !.row.Box_Outer_Net_Energy_J = @ + total]

\* lines 897-899: the temperatures of the timestep are written to the arrays
RecordTemperatures(s) ==
    [s EXCEPT !.row.Battery_Temp_C = s.battery_temp_c,
              !.row.Box_Inner_Temp_C = s.box_inner_temp_c,
              !.row.Box_Outer_Temp_C = s.box_outer_temp_c,
              !.obs.heater_on_end = s.heater_on,
              !.obs.heater_counter_end = s.heater_counter]

\* What an iteration has observed before it does anything
EmptyObs(on, counter, tb, ti, to, row) ==
    [ heater_on_start |-> on,
      heater_counter_start |-> counter,
      battery_temp_start |-> tb,
      box_inner_temp_start |-> ti,
      box_outer_temp_start |-> to,
      losses_staged |-> row.Battery_Losses_Input_J,
      heater_on_checked |-> on,
      heater_counter_checked |-> counter,
      triggered |-> FALSE,
      heater_on_triggered |-> on,
      heater_counter_triggered |-> counter,
      injected |-> FALSE,
      gate_temp |-> ti,
      battery_gate_temp |-> tb,
      conducted |-> FALSE,
      updates |-> <<>>,
      heater_on_end |-> on,
      heater_counter_end |-> counter ]

\* Variant of LoopBody: the losses to the environment are taken from the
\* outer wall before the inner wall's flow has reached it
LoopBody_EnvironmentBeforeWall(s) ==
    RecordTemperatures(
      WallConduction(
        EnvironmentLosses(
          BatteryRadiation(
            BatteryConvection(
              BatteryConduction(
                HeaterInjection(
                  HeaterTrigger(
                    HeaterBookkeeping(s)))))))))

\* Variant of LoopBody: the trigger check runs ahead of the minimum-on
\* bookkeeping
LoopBody_TriggerBeforeBookkeeping(s) ==
    RecordTemperatures(
      EnvironmentLosses(
        WallConduction(
          BatteryRadiation(
            BatteryConvection(
              BatteryConduction(
                HeaterInjection(
                  HeaterBookkeeping(
                    HeaterTrigger(s)))))))))

\* The body of the for loop, lines 738-899, in the order of the source
LoopBody(s) ==
    RecordTemperatures(
      EnvironmentLosses(
        WallConduction(
          BatteryRadiation(
            BatteryConvection(
              BatteryConduction(
                HeaterInjection(
                  HeaterTrigger(
                    HeaterBookkeeping(s)))))))))

\* Variant of Step: the temperatures of the timestep are written one index
\* too low, over the record of the timestep before
Step_RecordsAtPreviousIndex ==
    /\ pc = "loop"
    /\ i <= N
    /\ LET s == [ battery_temp_c |-> battery_temp_c,
                  box_inner_temp_c |-> box_inner_temp_c,
                  box_outer_temp_c |-> box_outer_temp_c,
                  heater_on |-> heater_on,
                  heater_counter |-> heater_counter,
                  row |-> arrays[i],
                  obs |-> EmptyObs(heater_on, heater_counter, battery_temp_c,
                                   box_inner_temp_c, box_outer_temp_c,
                                   arrays[i]) ]
           t == LoopBody(s)
           k == IF i > 1 THEN i - 1 ELSE i
           flows == [arrays EXCEPT
                       ![i] = [t.row EXCEPT
                                 !.Battery_Temp_C = arrays[i].Battery_Temp_C,
                                 !.Box_Inner_Temp_C = arrays[i].Box_Inner_Temp_C,
                                 !.Box_Outer_Temp_C = arrays[i].Box_Outer_Temp_C]]
       IN  /\ arrays' = [flows EXCEPT
                           ![k].Battery_Temp_C = t.battery_temp_c,
                           ![k].Box_Inner_Temp_C = t.box_inner_temp_c,
                           ![k].Box_Outer_Temp_C = t.box_outer_temp_c]
           /\ battery_temp_c' = t.battery_temp_c
           /\ box_inner_temp_c' = t.box_inner_temp_c
           /\ box_outer_temp_c' = t.box_outer_temp_c
           /\ heater_on' = t.heater_on
           /\ heater_counter' = t.heater_counter
           /\ hist' = Append(hist, t.obs)
    /\ i' = i + 1
    /\ UNCHANGED <<cfg, tmy_data_df, pc, builder_args, builder_result>>

\* One timestep: iteration i of the loop
Step ==
    /\ pc = "loop"
    /\ i <= N
    /\ LET s == [ battery_temp_c |-> battery_temp_c,
                  box_inner_temp_c |-> box_inner_temp_c,
                  box_outer_temp_c |-> box_outer_temp_c,
                  heater_on |-> heater_on,
                  heater_counter |-> heater_counter,
                  row |-> arrays[i],
                  obs |-> EmptyObs(heater_on, heater_counter, battery_temp_c,
                                   box_inner_temp_c, box_outer_temp_c,
                                   arrays[i]) ]
           t == LoopBody(s)
       IN  /\ arrays' = [arrays EXCEPT ![i] = t.row]
           /\ battery_temp_c' = t.battery_temp_c
           /\ box_inner_temp_c' = t.box_inner_temp_c
           /\ box_outer_temp_c' = t.box_outer_temp_c
           /\ heater_on' = t.heater_on
           /\ heater_counter' = t.heater_counter
           /\ hist' = Append(hist, t.obs)
    /\ i' = i + 1
    /\ UNCHANGED <<cfg, tmy_data_df, pc, builder_args, builder_result>>

\* The loop is exhausted: the arrays are returned
Return ==
    /\ pc = "loop"
    /\ i > N
    /\ pc' = "done"
    /\ UNCHANGED <<cfg, tmy_data_df, arrays, i, battery_temp_c,
                   box_inner_temp_c, box_outer_temp_c, heater_on,
                   heater_counter, hist, builder_args, builder_result>>

Next == Stage \/ Step \/ Return

Spec == Init /\ [][Next]_vars

\* ------------------------------------------------------------------------
\* The network builder on its own: inputs and call
\* ------------------------------------------------------------------------
\* Material layers as Container.__post_init__ builds them:
\* (thickness, thermal_conductivity, heat_capacity, density, emissivity).
\* The last one is a thin insulator: its second value times a face of the
\* small battery is below the resolution of the fixed point, and not 0.
MaterialLayers ==
    { <<10, 50, 130000, 3000, 90>>,
      <<20, 200, 170000, 60000, 90>>,
      <<30, 100, 90000, 10000, 80>>,
      <<10, 50, 130000, 0, 90>>,
      <<5, 4, 130000, 3000, 90>> }

\* Layers of another arity: the four values the builder's signature names,
\* three values, and six
MalformedLayers ==
    { <<10, 50, 130000, 3000>>,
      <<10, 50, 130000>>,
      <<10, 50, 130000, 3000, 90, 1>> }

\* material_list: the inner liner and the outer shell, or one layer alone
\* (as a list of one, or with None or an empty layer in the place of the
\* second), or nothing (None, an empty list, a list of one empty layer), or a
\* list with None first or with a layer of another arity
MaterialLists ==
    { <<inner, outer>> : inner, outer \in MaterialLayers }
    \cup { <<layer>> : layer \in MaterialLayers }
    \cup { <<layer, None>> : layer \in MaterialLayers }
    \cup { None, << >>, << << >> >> }
    \cup { <<layer, << >> >> : layer \in MaterialLayers }
    \cup { <<None, layer>> : layer \in MaterialLayers }
    \cup { <<layer, layer>> : layer \in MalformedLayers }
    \cup { <<layer, <<20, 200, 170000, 60000, 90>> >> : layer \in MalformedLayers }
    \cup { << <<20, 200, 170000, 60000, 90>>, layer>> : layer \in MalformedLayers }

\* Transfer arrays: not supplied, empty, the default, no face or every face
\* flagged
TransferArrays ==
    { None, << >>, DefaultTransferArray, <<0, 0, 0, 0, 0, 0>>,
      <<1, 1, 1, 1, 1, 1>> }

\* The box lengths: the default of calculate_net_energy_flows and a negative
\* one
BoxLengths == {100, -100}

\* The battery: the default of calculate_net_energy_flows and a small one
\* (length, width, height)
BatterySizes == { <<90, 60, 30>>, <<30, 20, 10>> }

\* The arguments of calculate_battery_box_parameters; the other dimensions are
\* the defaults of calculate_net_energy_flows
BuilderArgs ==
    { [ battery_length |-> b[1], battery_width |-> b[2], battery_height |-> b[3],
        box_length |-> bl, box_width |-> 70, box_height |-> 40,
        battery_transfer_array |-> bta,
        box_transfer_array |-> bxa,
        material_list |-> ml ]
      : bta \in TransferArrays, bxa \in TransferArrays, ml \in MaterialLists,
        bl \in BoxLengths, b \in BatterySizes }

BuilderInit ==
    /\ builder_args \in BuilderArgs
    /\ builder_result = <<>>
    /\ pc = "build"
    /\ cfg = <<>>
    /\ tmy_data_df = <<>>
    /\ arrays = <<>>
    /\ i = 0
    /\ battery_temp_c = 0
    /\ box_inner_temp_c = 0
    /\ box_outer_temp_c = 0
    /\ heater_on = FALSE
    /\ heater_counter = 0
    /\ hist = <<>>

\* The call of calculate_battery_box_parameters: it returns the network or
\* raises
Build ==
    /\ pc = "build"
    /\ builder_result' = calculate_battery_box_parameters(builder_args)
    /\ pc' = IF builder_result'.raised = "none" THEN "built" ELSE "raised"
    /\ UNCHANGED <<cfg, tmy_data_df, arrays, i, battery_temp_c, box_inner_temp_c,
                   box_outer_temp_c, heater_on, heater_counter, hist,
                   builder_args>>

BuilderNext == Build

BuilderSpec == BuilderInit /\ [][BuilderNext]_vars

\* ------------------------------------------------------------------------
\* The loop over float64 values that may be NaN
\* ------------------------------------------------------------------------
\* The fixed-point arithmetic above has no NaN.  FinitenessSpec runs the same
\* program on the finiteness of its float64 values alone: a value is Finite
\* (some finite number) or NaN; the heater bookkeeping is the one of the loop
\* above.  Infinite ambient samples and the overflow of finite operands are
\* left out: a temperature that is not finite is NaN and comes from a NaN
\* ambient sample or from the losses of a NaN energy use.
Finite == "finite"

NaN == "nan"

\* +, -, * and / of float64 by the loop's finite, non-zero constants: the
\* result is NaN as soon as an operand is
FloatOp(x, y) == IF x = NaN \/ y = NaN THEN NaN ELSE Finite

\* The finiteness of a flow between two temperatures (lines 70-89, 93-141,
\* 145-177): (temp_1 - temp_2) / R * dt or the radiative difference of their
\* fourth powers
FlowFiniteness(temp_1, temp_2) == FloatOp(temp_1, temp_2)

\* The finiteness of calc_change_in_temperature_c(initial_temp, heat_energy,
\* heat_capacity, mass)
UpdateFiniteness(initial_temp, heat_energy) == FloatOp(initial_temp, heat_energy)

\* The input table: every ambient sample and every energy use is a finite
\* number or NaN
FinitenessSeries ==
    [1..FreeSteps -> { [Ambient_Temperature_C |-> a, Energy_Use_kWh |-> u]
                       : a \in {Finite, NaN}, u \in {Finite, NaN} }]

\* calculate_net_energy_flows is called
FinitenessInit ==
    /\ cfg \in { [use_heater |-> hs[1], heater_time_minutes |-> hs[2]] :
                 hs \in HeaterSettings }
    /\ tmy_data_df \in FinitenessSeries
    /\ builder_args \in NetworkArgs
    /\ builder_result = <<>>
    /\ arrays = <<>>
    /\ pc = "start"
    /\ i = 0
    /\ battery_temp_c = Finite
    /\ box_inner_temp_c = Finite
    /\ box_outer_temp_c = Finite
    /\ heater_on = FALSE
    /\ heater_counter = 0
    /\ hist = <<>>

\* lines 447-552 and 729-735: the builder is called on the geometry and the
\* materials, which are finite numbers; when it returns, the network is
\* finite, the arrays are staged with every row at the first ambient sample
\* and with the losses of its energy use (lines 504-510: Energy_Use_kWh *
\* 3_600_000 * battery_losses_perc), and the loop is entered
FinitenessStage ==
    /\ pc = "start"
    /\ builder_result' = calculate_battery_box_parameters(builder_args)
    /\ IF builder_result'.raised # "none"
       THEN /\ pc' = "raised"
            /\ UNCHANGED <<arrays, i, battery_temp_c, box_inner_temp_c,
                           box_outer_temp_c>>
       ELSE /\ pc' = "loop"
            /\ arrays' =
                   [j \in 1..Len(tmy_data_df) |->
                      [Battery_Temp_C |-> tmy_data_df[1].Ambient_Temperature_C,
                       Box_Inner_Temp_C |-> tmy_data_df[1].Ambient_Temperature_C,
                       Box_Outer_Temp_C |-> tmy_data_df[1].Ambient_Temperature_C,
                       Battery_Losses_Input_J |->
                           FloatOp(tmy_data_df[j].Energy_Use_kWh, Finite)]]
            /\ i' = 1
            /\ battery_temp_c' = arrays'[1].Battery_Temp_C
            /\ box_inner_temp_c' = arrays'[1].Box_Inner_Temp_C
            /\ box_outer_temp_c' = arrays'[1].Box_Outer_Temp_C
    /\ heater_on' = FALSE
    /\ heater_counter' = 0
    /\ UNCHANGED <<cfg, tmy_data_df, hist, builder_args>>

\* lines 738-899 on finiteness.  The two comparisons of the inner-wall
\* temperature with the threshold (lines 753 and 784) are False for NaN; for a
\* finite temperature either outcome is possible, and without an injection in
\* between the second is the negation of the first.  Nothing in the loop
\* tests a value for finiteness, and nothing raises.
FinitenessStep ==
    /\ pc = "loop"
    /\ i <= N
    /\ \E at_or_below \in BOOLEAN, above \in BOOLEAN :
         LET checked == HeaterBookkeeping(
                            [heater_on |-> heater_on,
                             heater_counter |-> heater_counter,
                             obs |-> [heater_on_checked |-> FALSE,
                                      heater_counter_checked |-> 0]])
             fires == box_inner_temp_c = Finite /\ at_or_below /\ cfg.use_heater
             on == fires \/ checked.heater_on
             inject == cfg.use_heater /\ on
             battery_losses_input ==
                 IF inject
                 THEN FloatOp(arrays[i].Battery_Losses_Input_J, Finite)
                 ELSE arrays[i].Battery_Losses_Input_J
             battery_total_heating_losses_energy_j ==
                 FloatOp(battery_losses_input, Finite)
             battery_heated ==
                 IF inject
                 THEN UpdateFiniteness(battery_temp_c,
                                       battery_total_heating_losses_energy_j)
                 ELSE battery_temp_c
             inner_heated == IF inject
                             THEN UpdateFiniteness(box_inner_temp_c, Finite)
                             ELSE box_inner_temp_c
             conducts == /\ inner_heated = Finite
                         /\ IF inject THEN above ELSE ~at_or_below
             cond == FlowFiniteness(battery_heated, inner_heated)
             battery_cond == IF conducts
                             THEN UpdateFiniteness(battery_heated, cond)
                             ELSE battery_heated
             inner_cond == IF conducts
                           THEN UpdateFiniteness(inner_heated, cond)
                           ELSE inner_heated
             conv == FlowFiniteness(battery_cond, inner_cond)
             battery_conv == UpdateFiniteness(battery_cond, conv)
             inner_conv == UpdateFiniteness(inner_cond, conv)
             radi == FlowFiniteness(battery_conv, inner_conv)
             battery_radi == UpdateFiniteness(battery_conv, radi)
             inner_radi == UpdateFiniteness(inner_conv, radi)
             wall == FlowFiniteness(inner_radi, box_outer_temp_c)
             inner_wall == UpdateFiniteness(inner_radi, wall)
             outer_wall == UpdateFiniteness(box_outer_temp_c, wall)
             env == FlowFiniteness(outer_wall,
                                   tmy_data_df[i].Ambient_Temperature_C)
             outer_env == UpdateFiniteness(outer_wall, env)
         IN  /\ heater_on' = on
             /\ heater_counter' =
                    (IF fires THEN 0 ELSE checked.heater_counter)
                    + (IF inject THEN 1 ELSE 0)
             /\ battery_temp_c' = battery_radi
             /\ box_inner_temp_c' = inner_wall
             /\ box_outer_temp_c' = outer_env
             /\ arrays' = [arrays EXCEPT ![i] =
                             [Battery_Temp_C |-> battery_radi,
                              Box_Inner_Temp_C |-> inner_wall,
                              Box_Outer_Temp_C |-> outer_env,
                              Battery_Losses_Input_J |-> battery_losses_input]]
    /\ i' = i + 1
    /\ UNCHANGED <<cfg, tmy_data_df, pc, hist, builder_args, builder_result>>

\* lines 901-929: the loop has run through the series and returns the arrays
FinitenessReturn ==
    /\ pc = "loop"
    /\ i > N
    /\ pc' = "done"
    /\ UNCHANGED <<cfg, tmy_data_df, arrays, i, battery_temp_c,
                   box_inner_temp_c, box_outer_temp_c, heater_on,
                   heater_counter, hist, builder_args, builder_result>>

FinitenessNext == FinitenessStage \/ FinitenessStep \/ FinitenessReturn

FinitenessSpec == FinitenessInit /\ [][FinitenessNext]_vars

\* ------------------------------------------------------------------------
\* Properties
\* ------------------------------------------------------------------------
\* The timesteps processed so far
Processed == 1..Len(hist)

RECURSIVE SumUpdates(_, _, _, _)
\* Sum of heat_energy over the first n logged updates of node whose flow is
\* in flows
SumUpdates(updates, n, node, flows) ==
    IF n = 0 THEN 0
    ELSE SumUpdates(updates, n - 1, node, flows)
         + (IF updates[n].node = node /\ updates[n].flow \in flows
            THEN updates[n].heat_energy ELSE 0)

AllFlows == {"heater", "cond", "conv", "radi", "wall", "env"}

\* The energy by which the temperature of node was changed in timestep j
AppliedEnergy(j, node) ==
    SumUpdates(hist[j].updates, Len(hist[j].updates), node, AllFlows)

\* The heater ran in timestep j and injected its energy
HeaterRan(j) ==
    /\ hist[j].heater_on_end
    /\ hist[j].injected
    /\ arrays[j].Battery_Heater_Input_J = heater_power_j

\* C1: every timestep t that triggers the heater is followed by heater
\* operation in all of t, t+1, ..., t+M-1 (M = heater_time_minutes, the
\* timesteps t+k with k <= M - 1), as far as the run has got.
C1_MinimumDwell ==
    \A t \in Processed :
        hist[t].triggered =>
            \A k \in 0..(cfg.heater_time_minutes \div Scale - 1) :
                t + k <= Len(hist) => HeaterRan(t + k)

\* C2: in every processed timestep the outer wall's net energy is the flow
\* received from the inner wall minus the three flows to the environment,
\* and it is the energy by which the outer-wall temperature was changed.
C2_OuterWallConservation ==
    \A j \in Processed :
        /\ arrays[j].Box_Outer_Net_Energy_J =
               arrays[j].Box_Inner_to_Box_Outer_Energy_J
               - ( arrays[j].Box_Outer_Cond_to_Environment_Energy_J
                 + arrays[j].Box_Outer_Conv_to_Environment_Energy_J
                 + arrays[j].Box_Outer_Radi_to_Environment_Energy_J )
        /\ arrays[j].Box_Outer_Net_Energy_J = AppliedEnergy(j, "box_outer")

\* C3: in every processed timestep, heater ON or OFF, the battery's net
\* energy is the heater's share plus the recorded losses input minus the
\* three flows leaving the battery.
C3_BatteryConservation ==
    \A j \in Processed :
        arrays[j].Battery_Net_Energy_J =
            arrays[j].Heater_to_Battery_Energy_J
            + arrays[j].Battery_Losses_Input_J
            - ( arrays[j].Battery_Cond_to_Box_Inner_Energy_J
              + arrays[j].Battery_Conv_to_Box_Inner_Energy_J
              + arrays[j].Battery_Radi_to_Box_Inner_Energy_J )

\* C4: in every processed timestep the inner wall's net energy is the
\* heater's wall share plus the conductive, convective and radiative flows
\* received from the battery minus the flow to the outer wall, and it is the
\* energy by which the inner-wall temperature was changed.
C4_InnerWallConservation ==
    \A j \in Processed :
        /\ arrays[j].Box_Inner_Net_Energy_J =
               arrays[j].Heater_to_Box_Inner_Energy_J
               + arrays[j].Battery_Cond_to_Box_Inner_Energy_J
               + arrays[j].Battery_Conv_to_Box_Inner_Energy_J
               + arrays[j].Battery_Radi_to_Box_Inner_Energy_J
               - arrays[j].Box_Inner_to_Box_Outer_Energy_J
        /\ arrays[j].Box_Inner_Net_Energy_J = AppliedEnergy(j, "box_inner")

\* A timestep in which the heater, conduction, convection, radiation and the
\* wall flow all moved energy through the inner wall
C4_Witness ==
    \E j \in Processed :
        /\ arrays[j].Heater_to_Box_Inner_Energy_J > 0
        /\ arrays[j].Battery_Cond_to_Box_Inner_Energy_J # 0
        /\ arrays[j].Battery_Conv_to_Box_Inner_Energy_J # 0
        /\ arrays[j].Battery_Radi_to_Box_Inner_Energy_J # 0
        /\ arrays[j].Box_Inner_to_Box_Outer_Energy_J # 0

\* C5: a timestep that starts with the inner wall at or below the threshold
\* and the heater enabled ends with the heater ON and records the heater
\* energy P*dt split into P*dt*f for the battery and P*dt*(1-f) for the inner
\* wall, whatever heater state and counter the previous step left.
C5_TriggerAndSplit ==
    \A j \in Processed :
        ( /\ hist[j].box_inner_temp_start <= cfg.heater_threshold_temp_c
          /\ cfg.use_heater )
        =>
        /\ hist[j].heater_on_end
        /\ arrays[j].Battery_Heater_Input_J = heater_power_j
        /\ arrays[j].Heater_to_Battery_Energy_J =
               Mul(heater_power_j, cfg.heater_battery_transfer)
        /\ arrays[j].Heater_to_Box_Inner_Energy_J =
               Mul(heater_power_j, Scale - cfg.heater_battery_transfer)
        /\ arrays[j].Heater_to_Battery_Energy_J
           + arrays[j].Heater_to_Box_Inner_Energy_J
           = arrays[j].Battery_Heater_Input_J

\* The heater has been triggered once from OFF and once in a step that
\* started ON with the minimum-on time already used up
C5_Witness ==
    /\ cfg.use_heater
    /\ \E j \in Processed :
           /\ hist[j].box_inner_temp_start <= cfg.heater_threshold_temp_c
           /\ ~hist[j].heater_on_start
    /\ \E k \in Processed :
           /\ hist[k].box_inner_temp_start <= cfg.heater_threshold_temp_c
           /\ hist[k].heater_on_start
           /\ hist[k].heater_counter_start * Scale >= cfg.heater_time_minutes

\* C6 as claimed: when the trigger check fires while the heater is already
\* ON, it changes neither the heater state nor the elapsed-on counter.
C6_RetriggerResetsNothing ==
    \A j \in Processed :
        (hist[j].heater_on_checked /\ hist[j].triggered)
        =>
        /\ hist[j].heater_on_triggered = hist[j].heater_on_checked
        /\ hist[j].heater_counter_triggered = hist[j].heater_counter_checked

\* C6 as amended: when the trigger check fires while the heater is already
\* ON, the heater stays ON and the elapsed-on counter is set back to 0, so
\* that the timestep ends with the counter at 1.
C6_RetriggerResetsCounter ==
    \A j \in Processed :
        (hist[j].heater_on_checked /\ hist[j].triggered)
        =>
        /\ hist[j].heater_on_triggered
        /\ hist[j].heater_counter_triggered = 0
        /\ hist[j].heater_on_end
        /\ hist[j].heater_counter_end = 1

\* The trigger check has fired with the heater ON and the counter above 0
C6_Witness ==
    \E j \in Processed :
        /\ hist[j].heater_on_checked
        /\ hist[j].triggered
        /\ hist[j].heater_counter_checked > 0

\* C7: a timestep that starts with the heater ON and ends with it OFF started
\* with the elapsed-on counter at heater_time_minutes or above.
C7_OffOnlyAfterMinimum ==
    \A j \in Processed :
        (hist[j].heater_on_start /\ ~hist[j].heater_on_end)
        => hist[j].heater_counter_start * Scale >= cfg.heater_time_minutes

\* The heater has gone from ON to OFF under a minimum-on time above 0
C7_Witness ==
    /\ cfg.heater_time_minutes > 0
    /\ \E j \in Processed : hist[j].heater_on_start /\ ~hist[j].heater_on_end

\* C8: over two consecutive timesteps that both end with the heater ON, the
\* later one not re-triggered, the counter at the end of the later step is
\* one more than at the end of the earlier step.
C8_CounterIncrementsByOne ==
    \A j \in Processed :
        ( /\ j > 1
          /\ hist[j - 1].heater_on_end
          /\ hist[j].heater_on_end
          /\ ~hist[j].triggered )
        => hist[j].heater_counter_end = hist[j - 1].heater_counter_end + 1

\* C9: in every processed timestep, heater ON or OFF, the battery
\* temperature is raised by the recorded Battery_Losses_Input_J before the
\* outgoing flows are applied: the energy put into the battery ahead of the
\* flows is the losses input plus the heater's share.
C9_LossesHeatBattery ==
    \A j \in Processed :
        SumUpdates(hist[j].updates, Len(hist[j].updates), "battery", {"heater"})
        = arrays[j].Battery_Losses_Input_J
          + arrays[j].Heater_to_Battery_Energy_J

\* The inner-wall temperature of timestep j after the heater injection
InnerAfterInjection(j) ==
    IF hist[j].injected
    THEN calc_change_in_temperature_c(
             hist[j].box_inner_temp_start,
             arrays[j].Heater_to_Box_Inner_Energy_J,
             builder_result.box_heat_capacity, builder_result.box_wall_mass_kg)
    ELSE hist[j].box_inner_temp_start

\* The flows whose temperature updates timestep j logged
FlowsApplied(j) ==
    { hist[j].updates[n].flow : n \in 1..Len(hist[j].updates) }

\* C10: in every processed timestep the battery -> inner-wall conduction is
\* computed and applied exactly when the inner-wall temperature after the
\* heater injection is strictly above the threshold; otherwise both
\* conduction tallies stay 0 and no temperature is changed by conduction.
\* Convection and enclosed radiation are applied in every timestep.
C10_ConductionGate ==
    \A j \in Processed :
        /\ hist[j].gate_temp = InnerAfterInjection(j)
        /\ IF InnerAfterInjection(j) > cfg.heater_threshold_temp_c
           THEN /\ "cond" \in FlowsApplied(j)
                /\ arrays[j].Battery_Cond_to_Box_Inner_Energy_J =
                       calculate_heat_energy_flow(
                           hist[j].battery_gate_temp, hist[j].gate_temp,
                           builder_result.battery_conductive_resistance,
                           cfg.bucket_period_seconds)
           ELSE /\ "cond" \notin FlowsApplied(j)
                /\ arrays[j].Battery_Cond_to_Box_Inner_Energy_J = 0
                /\ arrays[j].Box_Inner_Cond_to_Battery_Energy_J = 0
        /\ {"conv", "radi"} \subseteq FlowsApplied(j)

\* Conduction has been skipped in one timestep and has moved energy in
\* another, in which the heater was ON
C10_Witness ==
    /\ \E j \in Processed :
           /\ hist[j].gate_temp <= cfg.heater_threshold_temp_c
           /\ hist[j].injected
    /\ \E k \in Processed :
           /\ hist[k].gate_temp > cfg.heater_threshold_temp_c
           /\ hist[k].injected
           /\ arrays[k].Battery_Cond_to_Box_Inner_Energy_J # 0

\* ------------------------------------------------------------------------
\* C11: the order of the updates within a timestep
\* ------------------------------------------------------------------------
\* The temperature updates a timestep makes, in the order of the source
ExpectedUpdates(j) ==
    (IF hist[j].injected
     THEN << <<"battery", "heater">>, <<"box_inner", "heater">> >>
     ELSE << >>)
    \o (IF hist[j].conducted
        THEN << <<"battery", "cond">>, <<"box_inner", "cond">> >>
        ELSE << >>)
    \o << <<"battery", "conv">>, <<"box_inner", "conv">>,
          <<"battery", "radi">>, <<"box_inner", "radi">>,
          <<"box_inner", "wall">>, <<"box_outer", "wall">>,
          <<"box_outer", "env">> >>

\* The temperature of node at the start of timestep j
StartTemp(j, node) ==
    CASE node = "battery" -> hist[j].battery_temp_start
      [] node = "box_inner" -> hist[j].box_inner_temp_start
      [] node = "box_outer" -> hist[j].box_outer_temp_start

\* The temperature of the node of update n of timestep j as all earlier
\* updates of the timestep have left it
TempBefore(j, n) ==
    LET u == hist[j].updates
        prior == { m \in 1..(n - 1) : u[m].node = u[n].node }
    IN  IF prior = {} THEN StartTemp(j, u[n].node)
        ELSE u[CHOOSE m \in prior : \A k \in prior : k <= m].new_temp

\* The energy of a flow between two nodes at the given temperatures
FlowEnergy(flow, temp_from, temp_to) ==
    CASE flow = "cond" ->
             calculate_heat_energy_flow(
                 temp_from, temp_to, builder_result.battery_conductive_resistance,
                 cfg.bucket_period_seconds)
      [] flow = "conv" ->
             calculate_heat_energy_flow(
                 temp_from, temp_to, builder_result.battery_convective_resistance,
                 cfg.bucket_period_seconds)
      [] flow = "radi" ->
             calculate_inner_radiative_heat_flow(
                 builder_result.total_battery_area, builder_result.total_box_area,
                 cfg.battery_emissivity, cfg.box_inner_emissivity,
                 temp_from, temp_to, cfg.bucket_period_seconds)
      [] flow = "wall" ->
             calculate_heat_energy_flow(
                 temp_from, temp_to, builder_result.box_composite_conductive_resistance,
                 cfg.bucket_period_seconds)

\* The three channels to the environment from one outer-wall temperature and
\* one ambient sample
EnvironmentEnergy(channel, outer_temp, ambient_temperature) ==
    CASE channel = "conv" ->
             calculate_heat_energy_flow(
                 outer_temp, ambient_temperature,
                 builder_result.box_outer_convective_resistance, cfg.bucket_period_seconds)
      [] channel = "cond" ->
             calculate_heat_energy_flow(
                 outer_temp, ambient_temperature,
                 builder_result.box_outer_conductive_resistance, cfg.bucket_period_seconds)
      [] channel = "radi" ->
             calculate_outer_radiative_heat_flow(
                 builder_result.total_box_area, cfg.box_outer_emissivity,
                 outer_temp, ambient_temperature, cfg.bucket_period_seconds)

\* The tally in which a flow between two nodes is recorded
FlowTally(j, flow) ==
    CASE flow = "cond" -> arrays[j].Battery_Cond_to_Box_Inner_Energy_J
      [] flow = "conv" -> arrays[j].Battery_Conv_to_Box_Inner_Energy_J
      [] flow = "radi" -> arrays[j].Battery_Radi_to_Box_Inner_Energy_J
      [] flow = "wall" -> arrays[j].Box_Inner_to_Box_Outer_Energy_J

\* C11: in every processed timestep the heater bookkeeping precedes the
\* trigger check, the temperature updates are made in the order heater,
\* conduction, convection, enclosed radiation, wall conduction, environment,
\* every update starts from the temperature all earlier updates of the
\* timestep have left, every flow is computed from the temperatures its two
\* nodes have at that point, the three environment channels are computed from
\* the one outer-wall temperature left by the wall conduction and from the
\* ambient sample of the timestep, and the outer wall is updated once for
\* them, by their total.
C11_SequentialUpdateOrder ==
    \A j \in Processed :
        LET u == hist[j].updates
            last == Len(u)
        IN  /\ hist[j].heater_on_checked =
                   (hist[j].heater_on_start
                    /\ hist[j].heater_counter_start * Scale
                       < cfg.heater_time_minutes)
            /\ hist[j].triggered =
                   (hist[j].box_inner_temp_start <= cfg.heater_threshold_temp_c
                    /\ cfg.use_heater)
            /\ hist[j].heater_on_triggered =
                   (hist[j].triggered \/ hist[j].heater_on_checked)
            /\ hist[j].injected = hist[j].heater_on_triggered
            /\ [n \in 1..last |-> <<u[n].node, u[n].flow>>] = ExpectedUpdates(j)
            /\ \A n \in 1..last :
                   /\ u[n].initial_temp = TempBefore(j, n)
                   /\ u[n].new_temp =
                          calc_change_in_temperature_c(
                              u[n].initial_temp, u[n].heat_energy,
                              HeatCapacityOf(u[n].node), MassOf(u[n].node))
            /\ \A n \in 1..(last - 1) :
                   (u[n].flow \in {"cond", "conv", "radi", "wall"}
                    /\ u[n + 1].flow = u[n].flow)
                   =>
                   /\ u[n + 1].heat_energy =
                          FlowEnergy(u[n].flow, u[n].initial_temp,
                                     u[n + 1].initial_temp)
                   /\ u[n].heat_energy = -u[n + 1].heat_energy
                   /\ FlowTally(j, u[n].flow) = u[n + 1].heat_energy
            /\ u[last].initial_temp = u[last - 1].new_temp
            /\ arrays[j].Box_Outer_Conv_to_Environment_Energy_J =
                   EnvironmentEnergy("conv", u[last].initial_temp,
                                     tmy_data_df[j].Ambient_Temperature_C)
            /\ arrays[j].Box_Outer_Cond_to_Environment_Energy_J =
                   EnvironmentEnergy("cond", u[last].initial_temp,
                                     tmy_data_df[j].Ambient_Temperature_C)
            /\ arrays[j].Box_Outer_Radi_to_Environment_Energy_J =
                   EnvironmentEnergy("radi", u[last].initial_temp,
                                     tmy_data_df[j].Ambient_Temperature_C)
            /\ u[last].heat_energy =
                   -( arrays[j].Box_Outer_Conv_to_Environment_Energy_J
                    + arrays[j].Box_Outer_Cond_to_Environment_Energy_J
                    + arrays[j].Box_Outer_Radi_to_Environment_Energy_J )
            /\ arrays[j].Battery_Temp_C = u[last - 4].new_temp
            /\ arrays[j].Box_Inner_Temp_C = u[last - 2].new_temp
            /\ arrays[j].Box_Outer_Temp_C = u[last].new_temp

\* A timestep in which the heater, the conduction and every other flow moved
\* energy, so that every flow started from temperatures that earlier flows of
\* the same timestep had changed, under an ambient sample that differs from
\* the one before
C11_Witness ==
    \E j \in Processed :
        LET u == hist[j].updates
        IN  /\ j > 1
            /\ tmy_data_df[j].Ambient_Temperature_C
               # tmy_data_df[j - 1].Ambient_Temperature_C
            /\ hist[j].injected
            /\ hist[j].conducted
            /\ Len(u) = 11
            /\ \A n \in 1..Len(u) : u[n].heat_energy # 0
            /\ \A n \in (3..Len(u)) \ {10} :
                   u[n].initial_temp # StartTemp(j, u[n].node)

\* ------------------------------------------------------------------------
\* C12: the first timestep at steady state
\* ------------------------------------------------------------------------
\* The tallies of flows between nodes, to the environment and from the heater
FlowTallies(row) ==
    { row.Battery_Heater_Input_J,
      row.Heater_to_Battery_Energy_J,
      row.Heater_to_Box_Inner_Energy_J,
      row.Battery_Cond_to_Box_Inner_Energy_J,
      row.Battery_Conv_to_Box_Inner_Energy_J,
      row.Battery_Radi_to_Box_Inner_Energy_J,
      row.Box_Inner_Cond_to_Battery_Energy_J,
      row.Box_Inner_Conv_to_Battery_Energy_J,
      row.Box_Inner_Radi_to_Battery_Energy_J,
      row.Box_Inner_to_Box_Outer_Energy_J,
      row.Box_Outer_to_Box_Inner_Energy_J,
      row.Box_Outer_Cond_to_Environment_Energy_J,
      row.Box_Outer_Conv_to_Environment_Energy_J,
      row.Box_Outer_Radi_to_Environment_Energy_J,
      row.Box_Outer_Cond_from_Environment_Energy_J,
      row.Box_Outer_Conv_from_Environment_Energy_J,
      row.Box_Outer_Radi_from_Environment_Energy_J }

\* The net energies of the three nodes
NetEnergies(row) ==
    { row.Battery_Net_Energy_J,
      row.Box_Inner_Net_Energy_J,
      row.Box_Outer_Net_Energy_J }

\* C12: when the first timestep starts with the three temperatures at the
\* ambient temperature of the first sample and the heater does not trigger,
\* it leaves every flow tally and the net energy of every node at 0 and the
\* three temperatures unchanged, whatever throughput loss the sample carries.
C12_SteadyStateFirstStep ==
    ( /\ Len(hist) >= 1
      /\ hist[1].battery_temp_start = tmy_data_df[1].Ambient_Temperature_C
      /\ hist[1].box_inner_temp_start = tmy_data_df[1].Ambient_Temperature_C
      /\ hist[1].box_outer_temp_start = tmy_data_df[1].Ambient_Temperature_C
      /\ ~hist[1].triggered )
    =>
    /\ FlowTallies(arrays[1]) = {0}
    /\ NetEnergies(arrays[1]) = {0}
    /\ arrays[1].Battery_Temp_C = hist[1].battery_temp_start
    /\ arrays[1].Box_Inner_Temp_C = hist[1].box_inner_temp_start
    /\ arrays[1].Box_Outer_Temp_C = hist[1].box_outer_temp_start

\* ------------------------------------------------------------------------
\* C13: the two directions of every flow
\* ------------------------------------------------------------------------
\* C13: in every row of the output, processed or not, each tally of the
\* reverse direction is the negation of the tally of the forward direction:
\* inner wall -> battery against battery -> inner wall for conduction,
\* convection and radiation, outer wall -> inner wall against inner wall ->
\* outer wall, and from-environment against to-environment for the three
\* channels.
C13_DirectionBookkeeping ==
    \A j \in 1..N :
        /\ arrays[j].Box_Inner_Cond_to_Battery_Energy_J =
               -arrays[j].Battery_Cond_to_Box_Inner_Energy_J
        /\ arrays[j].Box_Inner_Conv_to_Battery_Energy_J =
               -arrays[j].Battery_Conv_to_Box_Inner_Energy_J
        /\ arrays[j].Box_Inner_Radi_to_Battery_Energy_J =
               -arrays[j].Battery_Radi_to_Box_Inner_Energy_J
        /\ arrays[j].Box_Outer_to_Box_Inner_Energy_J =
               -arrays[j].Box_Inner_to_Box_Outer_Energy_J
        /\ arrays[j].Box_Outer_Cond_from_Environment_Energy_J =
               -arrays[j].Box_Outer_Cond_to_Environment_Energy_J
        /\ arrays[j].Box_Outer_Conv_from_Environment_Energy_J =
               -arrays[j].Box_Outer_Conv_to_Environment_Energy_J
        /\ arrays[j].Box_Outer_Radi_from_Environment_Energy_J =
               -arrays[j].Box_Outer_Radi_to_Environment_Energy_J

\* A processed timestep in which all seven forward tallies are non-zero,
\* some of them positive and some negative
C13_Witness ==
    \E j \in Processed :
        /\ arrays[j].Battery_Cond_to_Box_Inner_Energy_J # 0
        /\ arrays[j].Battery_Conv_to_Box_Inner_Energy_J # 0
        /\ arrays[j].Battery_Radi_to_Box_Inner_Energy_J # 0
        /\ arrays[j].Box_Inner_to_Box_Outer_Energy_J > 0
        /\ arrays[j].Box_Outer_Cond_to_Environment_Energy_J < 0
        /\ arrays[j].Box_Outer_Conv_to_Environment_Energy_J < 0
        /\ arrays[j].Box_Outer_Radi_to_Environment_Energy_J < 0

\* ------------------------------------------------------------------------
\* C14: one record per input timestep
\* ------------------------------------------------------------------------
\* The output has one record per input sample, in the order of the input
RecordsMatchInput ==
    /\ pc \in {"loop", "done"} => Len(arrays) = Len(tmy_data_df)
    /\ \A j \in 1..N :
           /\ arrays[j].Datetime = j
           /\ arrays[j].Ambient_Temperature_C =
                  tmy_data_df[j].Ambient_Temperature_C

\* A step of the program writes no record but that of the timestep it
\* processes, and a step that processes a timestep moves on to the next
OnlyCurrentRecordWritten ==
    pc = "loop" =>
    /\ \A j \in 1..N : j # i => arrays'[j] = arrays[j]
    /\ hist' # hist => (i' = i + 1 /\ Len(hist') = i)
    /\ arrays' # arrays => hist' # hist

\* C14: a run over N input samples has exactly N records in input order at
\* all times; processing timestep i writes index i of the output series only,
\* so that the records of all timesteps before i are left as they were, and
\* the loop never comes back to an index.
C14_OneRecordPerTimestep ==
    []RecordsMatchInput /\ [][OnlyCurrentRecordWritten]_vars

\* A run over at least three samples has returned, and every timestep has
\* written flows into its record
C14_Witness ==
    /\ pc = "done"
    /\ N >= 3
    /\ Len(hist) = N
    /\ \A j \in 1..N : arrays[j].Box_Inner_to_Box_Outer_Energy_J # 0

\* ------------------------------------------------------------------------
\* C15: the state a run starts from
\* ------------------------------------------------------------------------
\* C15: before the first timestep the battery, inner-wall and outer-wall
\* temperatures all equal the first ambient sample, the heater is OFF and its
\* counter is 0; this is the state the first timestep starts from.
C15_InitialState ==
    /\ (pc = "loop" /\ i = 1) =>
           /\ battery_temp_c = tmy_data_df[1].Ambient_Temperature_C
           /\ box_inner_temp_c = tmy_data_df[1].Ambient_Temperature_C
           /\ box_outer_temp_c = tmy_data_df[1].Ambient_Temperature_C
           /\ heater_on = FALSE
           /\ heater_counter = 0
    /\ Len(hist) >= 1 =>
           /\ hist[1].battery_temp_start = tmy_data_df[1].Ambient_Temperature_C
           /\ hist[1].box_inner_temp_start = tmy_data_df[1].Ambient_Temperature_C
           /\ hist[1].box_outer_temp_start = tmy_data_df[1].Ambient_Temperature_C
           /\ hist[1].heater_on_start = FALSE
           /\ hist[1].heater_counter_start = 0

\* The first timestep has run from a first ambient sample other than 0 and
\* has moved the three temperatures and the heater away from the initial
\* state
C15_Witness ==
    /\ Len(hist) >= 1
    /\ tmy_data_df[1].Ambient_Temperature_C # 0
    /\ arrays[1].Battery_Temp_C # tmy_data_df[1].Ambient_Temperature_C
    /\ arrays[1].Box_Inner_Temp_C # tmy_data_df[1].Ambient_Temperature_C
    /\ arrays[1].Box_Outer_Temp_C # tmy_data_df[1].Ambient_Temperature_C
    /\ hist[1].heater_on_end
    /\ hist[1].heater_counter_end = 1

\* ------------------------------------------------------------------------
\* C16: the recorded throughput losses
\* ------------------------------------------------------------------------
\* The throughput loss staged for timestep j from its Energy_Use_kWh
StagedLosses(j) ==
    LossesInput(tmy_data_df[j].Energy_Use_kWh, cfg.battery_losses_perc)

\* C16 as claimed: in every row of the output the recorded
\* Battery_Losses_Input_J is Energy_Use_kWh * 3,600,000 * loss fraction,
\* whether or not the heater ran in that timestep.
C16_LossesReportedUnchanged ==
    \A j \in 1..N : arrays[j].Battery_Losses_Input_J = StagedLosses(j)

\* C16 as amended: in every row of the output the recorded
\* Battery_Losses_Input_J is Energy_Use_kWh * 3,600,000 * loss fraction when
\* the heater did not run in that timestep (or the timestep is still to be
\* processed), and that amount plus heater_power_j * battery_throughput_losses
\* when the heater ran.
C16_LossesPlusHeaterShare ==
    \A j \in 1..N :
        arrays[j].Battery_Losses_Input_J =
            StagedLosses(j)
            + (IF j \in Processed /\ hist[j].injected
               THEN Mul(heater_power_j, cfg.battery_throughput_losses)
               ELSE 0)

\* The run has processed a timestep with a non-zero staged loss in which the
\* heater ran and one in which it did not
C16_Witness ==
    /\ \E j \in Processed : StagedLosses(j) > 0 /\ hist[j].injected
    /\ \E k \in Processed : StagedLosses(k) > 0 /\ ~hist[k].injected

\* ------------------------------------------------------------------------
\* Properties of the network builder (under BuilderSpec)
\* ------------------------------------------------------------------------
\* The builder has been called
BuilderCalled == pc \in {"built", "raised"}

\* The transfer array the builder works with
EffectiveArray(transfer_array) ==
    IF Truthy(transfer_array) THEN transfer_array ELSE DefaultTransferArray

\* The areas the builder works with
BuilderAreas ==
    calculate_heat_transfer_areas(
        [builder_args EXCEPT
           !.battery_transfer_array = EffectiveArray(@),
           !.box_transfer_array = EffectiveArray(@)])

\* The five areas the builder divides by
AreaValues ==
    { BuilderAreas.battery_conductive_area,
      BuilderAreas.battery_convective_area,
      BuilderAreas.air_convective_area,
      BuilderAreas.box_conductive_area,
      BuilderAreas.box_convective_area }

\* Both objects have faces that conduct and faces that convect, of positive
\* area
AllAreasPositive == \A area \in AreaValues : area > 0

\* One of the objects has no face that conducts or no face that convects
SomeAreaZero == \E area \in AreaValues : area = 0

\* material_list supplies one layer only, of five values
SingleLayer ==
    /\ builder_args.material_list # None
    /\ \/ Len(builder_args.material_list) = 1
       \/ /\ Len(builder_args.material_list) = 2
          /\ builder_args.material_list[2] = None
    /\ builder_args.material_list[1] # None
    /\ Len(builder_args.material_list[1]) = 5

\* material_list supplies the inner liner and the outer shell, of five values
\* each
TwoLayers ==
    /\ builder_args.material_list # None
    /\ Len(builder_args.material_list) = 2
    /\ builder_args.material_list[1] # None
    /\ builder_args.material_list[2] # None
    /\ Len(builder_args.material_list[1]) = 5
    /\ Len(builder_args.material_list[2]) = 5

\* The total area of the box: all six faces
BoxArea ==
    LET box == FaceAreas(builder_args.box_length, builder_args.box_width,
                         builder_args.box_height)
    IN  box[1] + box[2] + box[3] + box[4] + box[5] + box[6]

\* thickness / (conductivity * area) of a layer laid out as
\* (thickness, conductivity, heat capacity, density, emissivity)
LayerResistance(layer, area_m2) ==
    RDiv(layer[1] * Scale * Scale, layer[2] * area_m2)

\* C17: when material_list supplies one layer only and both objects have
\* conducting and convecting faces, the builder returns without raising, the
\* wall mass and heat capacity are those of two half-thickness layers of the
\* one material, and the composite wall resistance is that of the one layer
\* at its full thickness.
C17_SingleLayerWall ==
    (BuilderCalled /\ SingleLayer /\ AllAreasPositive)
    =>
    LET layer == builder_args.material_list[1]
        half_thickness == Quo(layer[1], 2 * Scale)
        half_area == Quo(BoxArea, 2 * Scale)
    IN  /\ builder_result.raised = "none"
        /\ builder_result.box_wall_mass_kg =
               Mul(Mul(half_area, layer[4]), half_thickness)
               + Mul(Mul(half_area, layer[4]), half_thickness)
        /\ builder_result.box_heat_capacity = layer[3]
        /\ builder_result.box_composite_conductive_resistance =
               LayerResistance(layer, BoxArea)

\* C18: for material tuples laid out as (thickness, conductivity, heat
\* capacity, density, emissivity), inner liner first, the builder returns the
\* wall mass (A/2) * density_inner * thickness_inner + (A/2) * density_outer
\* * thickness_outer, A the total box area, and the wall heat capacity
\* (heat_capacity_inner + heat_capacity_outer) / 2.
C18_WallMassAndHeatCapacity ==
    (BuilderCalled /\ TwoLayers /\ AllAreasPositive)
    =>
    LET inner == builder_args.material_list[1]
        outer == builder_args.material_list[2]
        half_area == Quo(BoxArea, 2 * Scale)
    IN  /\ builder_result.raised = "none"
        /\ builder_result.box_wall_mass_kg =
               Mul(Mul(half_area, inner[4]), inner[1])
               + Mul(Mul(half_area, outer[4]), outer[1])
        /\ builder_result.box_heat_capacity =
               Quo(inner[3] + outer[3], 2 * Scale)

\* C19: built from a Container's material_list (inner liner first, outer
\* shell second), the battery-conductive resistance is thickness_inner /
\* (conductivity_inner * battery conductive area), the outer-conductive
\* resistance is thickness_outer / (conductivity_outer * box conductive
\* area), and the composite wall resistance is the sum of thickness /
\* (conductivity * area) of the two layers over the total box area.
C19_ConductiveResistances ==
    (BuilderCalled /\ TwoLayers /\ AllAreasPositive)
    =>
    LET inner == builder_args.material_list[1]
        outer == builder_args.material_list[2]
    IN  /\ builder_result.raised = "none"
        /\ builder_result.battery_conductive_resistance =
               LayerResistance(inner, BuilderAreas.battery_conductive_area)
        /\ builder_result.box_outer_conductive_resistance =
               LayerResistance(outer, BuilderAreas.box_conductive_area)
        /\ builder_result.box_composite_conductive_resistance =
               LayerResistance(inner, BoxArea) + LayerResistance(outer, BoxArea)
        /\ builder_result.total_box_area =
               BuilderAreas.box_conductive_area + BuilderAreas.box_convective_area

\* C20: a transfer array that leaves the battery or the box without any
\* conducting face or without any convecting face does not make the builder
\* raise.  (The rest of the claim, an infinite resistance and flows of 0 in
\* every timestep, is about the network this call returns.)
C20_ZeroAreaNoError ==
    (BuilderCalled /\ TwoLayers /\ SomeAreaZero)
    => builder_result.raised = "none"

\* ------------------------------------------------------------------------
\* C24, C25: the heater and the battery -> inner-wall conduction
\* ------------------------------------------------------------------------
\* The updates logged in timestep j for flow
UpdatesOf(j, flow) ==
    { n \in 1..Len(hist[j].updates) : hist[j].updates[n].flow = flow }

\* C24: in every timestep in which the heater is ON, dwell steps with the
\* inner wall above the threshold included, no battery -> inner-wall
\* conduction is computed: the conduction tally of the record stays 0, no
\* temperature is updated for conduction, and the inner wall receives from
\* the heater branch the share (1 - heater_battery_transfer) of the heater
\* energy only.
C24_NoConductionWhileHeaterOn ==
    \A j \in Processed :
        hist[j].heater_on_end
        =>
        /\ ~hist[j].conducted
        /\ UpdatesOf(j, "cond") = {}
        /\ arrays[j].Battery_Cond_to_Box_Inner_Energy_J = 0
        /\ arrays[j].Box_Inner_Cond_to_Battery_Energy_J = 0
        /\ arrays[j].Heater_to_Box_Inner_Energy_J =
               Mul(heater_power_j, Scale - cfg.heater_battery_transfer)

\* C25: in every timestep in which the heater is not ON, a disabled heater
\* and an inner wall at or below the threshold included, the battery ->
\* inner-wall conduction (T_battery - T_inner) / R_battery_conductive * dt is
\* computed from the temperatures at that point, recorded and applied to both
\* nodes.
C25_ConductionWhileHeaterOff ==
    \A j \in Processed :
        ~hist[j].heater_on_end
        =>
        /\ hist[j].conducted
        /\ \E n \in UpdatesOf(j, "cond") :
               LET u == hist[j].updates
               IN  /\ n + 1 \in UpdatesOf(j, "cond")
                   /\ u[n].node = "battery"
                   /\ u[n + 1].node = "box_inner"
                   /\ u[n + 1].heat_energy =
                          calculate_heat_energy_flow(
                              u[n].initial_temp, u[n + 1].initial_temp,
                              builder_result.battery_conductive_resistance,
                              cfg.bucket_period_seconds)
                   /\ u[n].heat_energy = -u[n + 1].heat_energy
                   /\ arrays[j].Battery_Cond_to_Box_Inner_Energy_J =
                          u[n + 1].heat_energy

\* ------------------------------------------------------------------------
\* C26: the disabled heater
\* ------------------------------------------------------------------------
\* C26: with use_heater = False the heater is OFF at every point of every
\* timestep, whatever the inner-wall temperature, and Battery_Heater_Input_J,
\* Heater_to_Battery_Energy_J and Heater_to_Box_Inner_Energy_J are 0 in every
\* record.
C26_DisabledHeaterStaysOff ==
    ~cfg.use_heater
    =>
    /\ ~heater_on
    /\ \A j \in Processed :
           /\ ~hist[j].heater_on_checked
           /\ ~hist[j].heater_on_triggered
           /\ ~hist[j].heater_on_end
           /\ ~hist[j].injected
    /\ \A j \in 1..N :
           /\ arrays[j].Battery_Heater_Input_J = 0
           /\ arrays[j].Heater_to_Battery_Energy_J = 0
           /\ arrays[j].Heater_to_Box_Inner_Energy_J = 0

\* A run with the heater disabled has returned after timesteps that started
\* with the inner wall at or below the threshold and after one that started
\* with it above
C26_Witness ==
    /\ ~cfg.use_heater
    /\ pc = "done"
    /\ \E j \in Processed :
           hist[j].box_inner_temp_start <= cfg.heater_threshold_temp_c
    /\ \E j \in Processed :
           hist[j].box_inner_temp_start > cfg.heater_threshold_temp_c

\* ------------------------------------------------------------------------
\* C27, C28: the heater turns off
\* ------------------------------------------------------------------------
\* The inner wall is above the threshold at the start of every timestep of
\* from..to
AboveThreshold(from, to) ==
    \A j \in from..to :
        hist[j].box_inner_temp_start > cfg.heater_threshold_temp_c

\* C27: when the inner wall is above the threshold at the start of every
\* timestep from t on, the heater is OFF and injects no energy in every
\* timestep k >= t + heater_time_minutes + 1, for as long as the inner wall
\* stays above the threshold.
C27_HeaterTurnsOff ==
    \A t \in Processed :
        \A k \in Processed :
            ( /\ (k - t - 1) * Scale >= cfg.heater_time_minutes
              /\ AboveThreshold(t, k) )
            =>
            /\ ~hist[k].heater_on_end
            /\ ~hist[k].injected
            /\ arrays[k].Battery_Heater_Input_J = 0

\* Under the largest minimum-on time, a heater that was ON at the start of
\* timestep t and still ran in it has met an inner wall above the threshold
\* from t on and is OFF heater_time_minutes + 1 timesteps later
C27_Witness ==
    /\ cfg.heater_time_minutes = MaxHeaterTime * Scale
    /\ \E t \in Processed :
           LET k == t + MaxHeaterTime + 1
           IN  /\ hist[t].heater_on_start
               /\ hist[t].injected
               /\ k \in Processed
               /\ AboveThreshold(t, k)
               /\ ~hist[k].heater_on_end

\* heater_time_minutes is a whole number of minutes
WholeHeaterTime == cfg.heater_time_minutes % Scale = 0

\* C28: for a whole heater_time_minutes, when timestep t triggers the heater
\* and the inner wall is above the threshold at the start of every timestep
\* of t+1..t+k, the heater injects its energy in timestep t, and in timestep
\* t+k exactly when k is at most floor(heater_time_minutes / 2): it runs for
\* floor(heater_time_minutes / 2) + 1 consecutive timesteps and in none after
\* them.
C28_OnDurationAfterLastTrigger ==
    \A t \in Processed :
        (WholeHeaterTime /\ hist[t].triggered)
        =>
        /\ HeaterRan(t)
        /\ \A k \in 1..(Len(hist) - t) :
               AboveThreshold(t + 1, t + k)
               =>
               /\ hist[t + k].injected =
                      (k <= (cfg.heater_time_minutes \div Scale) \div 2)
               /\ arrays[t + k].Battery_Heater_Input_J =
                      (IF k <= (cfg.heater_time_minutes \div Scale) \div 2
                       THEN heater_power_j ELSE 0)

\* Under a minimum-on time of 2 or more, a trigger has been followed by an
\* untriggered timestep in which the heater still ran and by one in which it
\* no longer did
C28_Witness ==
    \E t \in Processed :
        /\ WholeHeaterTime
        /\ cfg.heater_time_minutes >= 2 * Scale
        /\ hist[t].triggered
        /\ t + 2 \in Processed
        /\ AboveThreshold(t + 1, t + 2)
        /\ hist[t + 1].injected
        /\ ~hist[t + 2].injected

\* ------------------------------------------------------------------------
\* C29: the energy balance of a timestep
\* ------------------------------------------------------------------------
Nodes == {"battery", "box_inner", "box_outer"}

\* The temperature of node that timestep j records
EndTemp(j, node) ==
    CASE node = "battery" -> arrays[j].Battery_Temp_C
      [] node = "box_inner" -> arrays[j].Box_Inner_Temp_C
      [] node = "box_outer" -> arrays[j].Box_Outer_Temp_C

\* The energy by which the updates of timestep j for the flows in flows have
\* changed the temperature of node
EnergyOfFlows(j, node, flows) ==
    SumUpdates(hist[j].updates, Len(hist[j].updates), node, flows)

\* heat_capacity * mass * dT of node over timestep j
StoredEnergy(j, node) ==
    Mul(Mul(HeatCapacityOf(node), MassOf(node)),
        EndTemp(j, node) - StartTemp(j, node))

\* The number of temperature updates of node in timestep j
UpdateCount(j, node) ==
    Cardinality({ n \in 1..Len(hist[j].updates) :
                    hist[j].updates[n].node = node })

\* C29: over every processed timestep, the energy that the temperature
\* updates apply to battery, inner wall and outer wall together equals the
\* energy the heater branch injects into battery and inner wall in that
\* timestep (0 when the branch does not run) minus the total outer-wall ->
\* environment flow; each of the four internal exchanges (conduction,
\* convection, radiation, wall conduction) applies amounts that cancel over
\* the three nodes; and heat_capacity * mass * dT of every node equals the
\* energy applied to it, up to the rounding of each temperature update to
\* the grid of the arithmetic (half a grid step per update).
C29_WholeSystemEnergyBalance ==
    \A j \in Processed :
        LET injected ==
                IF hist[j].injected
                THEN arrays[j].Battery_Losses_Input_J
                     + arrays[j].Heater_to_Battery_Energy_J
                     + arrays[j].Heater_to_Box_Inner_Energy_J
                ELSE 0
            to_environment ==
                arrays[j].Box_Outer_Conv_to_Environment_Energy_J
                + arrays[j].Box_Outer_Cond_to_Environment_Energy_J
                + arrays[j].Box_Outer_Radi_to_Environment_Energy_J
        IN  /\ AppliedEnergy(j, "battery") + AppliedEnergy(j, "box_inner")
               + AppliedEnergy(j, "box_outer")
               = injected - to_environment
            /\ EnergyOfFlows(j, "battery", {"heater"})
               + EnergyOfFlows(j, "box_inner", {"heater"}) = injected
            /\ EnergyOfFlows(j, "box_outer", {"heater"}) = 0
            /\ \A flow \in {"cond", "conv", "radi", "wall"} :
                   EnergyOfFlows(j, "battery", {flow})
                   + EnergyOfFlows(j, "box_inner", {flow})
                   + EnergyOfFlows(j, "box_outer", {flow}) = 0
            /\ \A node \in Nodes :
                   2 * Scale * Abs(StoredEnergy(j, node) - AppliedEnergy(j, node))
                   <= UpdateCount(j, node)
                      * Mul(HeatCapacityOf(node), MassOf(node)) + Scale

\* A timestep in which the heater injected energy, all four internal
\* exchanges and the environment moved energy, and all three temperatures
\* changed
C29_Witness ==
    \E j \in Processed :
        /\ hist[j].injected
        /\ hist[j].conducted
        /\ \A flow \in {"cond", "conv", "radi", "wall"} :
               EnergyOfFlows(j, "box_inner", {flow}) # 0
        /\ EnergyOfFlows(j, "box_outer", {"env"}) # 0
        /\ \A node \in Nodes : EndTemp(j, node) # StartTemp(j, node)

\* ------------------------------------------------------------------------
\* C30: the range of the elapsed-on counter
\* ------------------------------------------------------------------------
\* C30 as claimed: at the end of every timestep the elapsed-on counter is 0
\* when the heater is OFF and between 1 and heater_time_minutes + 1 when it
\* is ON.
C30_CounterRange ==
    \A j \in Processed :
        IF hist[j].heater_on_end
        THEN /\ hist[j].heater_counter_end >= 1
             /\ hist[j].heater_counter_end * Scale
                <= cfg.heater_time_minutes + Scale
        ELSE hist[j].heater_counter_end = 0

\* C30 as amended: at the end of every timestep the elapsed-on counter is 0
\* when the heater is OFF; when it is ON the counter is at least 1 and below
\* heater_time_minutes + 2, and at most heater_time_minutes + 1 when
\* heater_time_minutes is a whole number.
C30_CounterBelowMinimumPlusTwo ==
    \A j \in Processed :
        IF hist[j].heater_on_end
        THEN /\ hist[j].heater_counter_end >= 1
             /\ hist[j].heater_counter_end * Scale
                < cfg.heater_time_minutes + 2 * Scale
             /\ WholeHeaterTime
                => hist[j].heater_counter_end * Scale
                   <= cfg.heater_time_minutes + Scale
        ELSE hist[j].heater_counter_end = 0

\* Under a minimum-on time that is not a whole number, a timestep has ended
\* with the heater ON and the counter above heater_time_minutes + 1, and a
\* later one has switched the heater off
C30_Witness ==
    \E j \in Processed :
        /\ ~WholeHeaterTime
        /\ hist[j].heater_on_end
        /\ hist[j].heater_counter_end * Scale > cfg.heater_time_minutes + Scale
        /\ \E k \in Processed :
               k > j /\ hist[k].heater_on_start /\ ~hist[k].heater_on_end

\* ------------------------------------------------------------------------
\* C21, C22: what the builder rejects before the time loop
\* ------------------------------------------------------------------------
\* material_list is missing, empty, or has a layer that is not a tuple of
\* five values
MalformedMaterialList ==
    \/ builder_args.material_list = None
    \/ builder_args.material_list = << >>
    \/ \E n \in 1..Len(builder_args.material_list) :
           /\ builder_args.material_list[n] # None
           /\ Len(builder_args.material_list[n]) # 5

\* C21: for every malformed material list (None, empty, a layer tuple of
\* wrong arity) and for every zero or negative area, the call of the builder
\* at the head of calculate_net_energy_flows raises, so that no timestep is
\* processed and no result table is returned.
C21_ConfigurationErrorsRaised ==
    (BuilderCalled /\ (MalformedMaterialList \/ ~AllAreasPositive))
    =>
    /\ pc = "raised"
    /\ builder_result.raised # "none"

\* C22: a network that the builder returns has a wall whose heat capacity
\* times mass is not zero: the builder rejects a zero product, and the loop
\* never divides by one.
C22_ZeroHeatCapacityMassRejected ==
    pc = "built"
    => /\ builder_result.box_heat_capacity # 0
       /\ builder_result.box_wall_mass_kg # 0

\* ------------------------------------------------------------------------
\* C23: non-finite temperatures
\* ------------------------------------------------------------------------
\* C23: no record written by the loop holds a non-finite temperature: a
\* timestep in which a temperature becomes NaN or infinite ends the run with
\* an error instead of writing its record and going on to the next timestep.
C23_FailFastOnNonFinite ==
    \A j \in 1..(i - 1) :
        /\ arrays[j].Battery_Temp_C = Finite
        /\ arrays[j].Box_Inner_Temp_C = Finite
        /\ arrays[j].Box_Outer_Temp_C = Finite

====
